---- MODULE Spec2Model ----
(***************************************************************************)
(* Model of the export pipeline builder and pipeline handle of             *)
(* tracing-opentelemetry-setup (src/src/builder.rs).                       *)
(*                                                                         *)
(* One behaviour is the life of one Builder: it is created for a           *)
(* Destination under some set of cargo features, configured and populated  *)
(* kind by kind, finished into an Otlp handle, shut down explicitly zero   *)
(* or more times and finally dropped.  A panic inside a builder call       *)
(* unwinds, which drops the Builder and with it the Otlp it owns.          *)
(*                                                                         *)
(* The SDK providers are collaborators.  Of a provider the model keeps     *)
(* what the handle can observe: how often shutdown_with_timeout was        *)
(* invoked on it, with which timeout, what it answered and how long the    *)
(* call blocked.                                                           *)
(***************************************************************************)
EXTENDS Integers, Sequences, FiniteSets, TLC

\* Option::None and Option::Some(x)
None == {}

Some(x) == {x}

\* the x of a Some(x)
Unwrap(o) == CHOOSE x \in o : TRUE

\* the three telemetry kinds, i.e. the three Option fields of Otlp
Kinds == {"logs", "trace", "metrics"}

\* enum Protocol
Protocols == {"Grpc", "HttpBinary", "HttpJson", "DatadogAgent"}

\* time::Duration::from_secs(10), the limit used when shutdown is given zero
DefaultLimit == 10

\* time::Duration::from_secs(5), the export timeout of a new Builder
DefaultTimeout == 5

\* time::Duration::ZERO, the limit Drop passes to shutdown
DropLimit == 0

(* ------------------------------ bounds -------------------------------- *)

\* largest limit (seconds) a caller passes to shutdown
MaxLimit == 11

\* longest time (seconds) a provider needs to flush and stop
MaxNeed == 11

\* largest export timeout (seconds) passed to with_timeout
MaxTimeout == 6

\* most headers added to one builder
MaxHeaders == 1

\* most explicit shutdown calls on one handle
MaxShutdowns == 2

Limits == {0, 1, DefaultLimit, MaxLimit}
Needs == {1, MaxNeed}
Timeouts == {DefaultTimeout, MaxTimeout}
HeaderPairs == {<<"authorization", "token">>}

\* what a provider does when asked to shut down: the time it needs to flush
\* and whether it then reports an internal failure
Behaviour == [need : Needs, fails : BOOLEAN]

\* the behaviours of the providers of the kinds in S (the other kinds have no
\* provider to behave; their entry is never read)
Behaviours(S) ==
    {[k \in {"logs", "trace", "metrics"} |->
         IF k \in S THEN f[k] ELSE [need |-> 1, fails |-> FALSE]] : f \in [S -> Behaviour]}

VARIABLES
    features,     \* cargo features the crate is compiled with
    destination,  \* Builder.destination
    builder,      \* Builder.headers / timeout / compression
    otlp,         \* Otlp.logs / trace / metrics (owned by the Builder until finish)
    prov,         \* per kind, the runtime state of the SDK provider built for it
    pc,           \* "building", "finished", "dropped" or "panicked"
    enabled,      \* kinds whose with_* call returned normally
    atFinish,     \* kinds populated in the handle finish() returned
    nShutdown,    \* number of explicit Otlp::shutdown calls so far
    last,         \* the last call: its arguments, what it did and what it returned
    layer,        \* OtlpLayer.trace / logs / metrics: the adapter in each field, if any
    lcall,        \* the last call on the OtlpLayer: what it asked whom and what it returned
    nConfig,      \* number of with_header / with_timeout / with_compression calls so far
    traceSettings, \* the TraceSettings a caller is putting together
    subscriber,   \* tracing's global default subscriber: the layers it was built with
    exporter,     \* the IoLogExporter: its is_shutdown flag
    file,         \* what has been written to the destination of the IoLogExporter
    panicHook,    \* ONCE of install_panic_hook and the process-wide panic hook
    threads       \* per thread, the call it is in and its position in that call

vars == <<features, destination, builder, otlp, prov, pc, enabled, atFinish, nShutdown, last,
          layer, lcall, nConfig, traceSettings, subscriber, exporter, file, panicHook, threads>>

\* the state of the builder and of the handle
builderVars ==
    <<destination, builder, otlp, prov, pc, enabled, atFinish, nShutdown, last, nConfig>>

\* the state of the composite layer
layerVars == <<layer, lcall>>

\* the state of the trace settings, the global subscriber, the file sink and
\* the panic hook
extraVars == <<traceSettings, subscriber, exporter, file, panicHook, threads>>


(* ----------------------- cargo features, Init ------------------------- *)

\* the cfg(feature = ...) switches builder.rs is compiled under; "metrics"
\* stands for any(feature = "metrics", feature = "tracing-metrics")
FeatureSets == [grpc : BOOLEAN, http : BOOLEAN, datadog : BOOLEAN, metrics : BOOLEAN]

\* Otlp::new(): every slot None
OtlpNew == [k \in Kinds |-> None]

\* ShutdownError::default(): no error recorded for any kind
ShutdownErrorDefault == [k \in Kinds |-> None]

\* Builder::new(destination): no headers, timeout 5 s, compression on
BuilderNew == [headers |-> <<>>, timeout |-> DefaultTimeout, compression |-> TRUE]

\* a provider nobody has asked to shut down yet
ProvNew == [k \in Kinds |-> [calls |-> 0, shut |-> FALSE]]

\* kinds whose slot holds a provider
Populated(o) == {k \in Kinds : o[k] # None}

\* the record kept of one call
Call(op, kind, pre, shutBefore, limit, r, ret, msg) ==
    [op |-> op, kind |-> kind, pre |-> pre, shutBefore |-> shutBefore,
     limit |-> limit, calls |-> r.calls, errors |-> r.errors,
     elapsed |-> r.elapsed, ret |-> ret, msg |-> msg]

\* a call that reaches no provider
NoShutdown == [calls |-> <<>>, errors |-> ShutdownErrorDefault, elapsed |-> 0]

\* an OtlpLayer with no adapter, and no call made on it
LayerNone == [k \in Kinds |-> None]

NoLayerCall == [method |-> "none", asked |-> <<>>, answers |-> LayerNone, result |-> None]

\* no trace settings in the making, no global subscriber, no file sink, no
\* panic hook installed and no thread at work
NoExtra ==
    /\ traceSettings = None
    /\ subscriber = None
    /\ exporter = None
    /\ file = <<>>
    /\ panicHook = None
    /\ threads = <<>>

Init ==
    /\ features \in FeatureSets
    /\ destination \in [protocol : Protocols]
    /\ builder = BuilderNew
    /\ otlp = OtlpNew
    /\ prov = ProvNew
    /\ pc = "building"
    /\ enabled = {}
    /\ atFinish = {}
    /\ nShutdown = 0
    /\ last = Call("new", None, {}, {}, 0, NoShutdown, "Builder", None)
    /\ layer = LayerNone
    /\ lcall = NoLayerCall
    /\ nConfig = 0
    /\ NoExtra

(* --------------------------- Otlp::shutdown --------------------------- *)

\* SdkLoggerProvider / SdkTracerProvider / SdkMeterProvider
\* ::shutdown_with_timeout(timeout) as the handle sees it: a provider that was
\* shut down before answers AlreadyShutdown at once; otherwise the call blocks
\* until the provider has flushed or the timeout has elapsed, whichever is
\* first, and answers Timeout, InternalFailure or Ok
ProviderShutdown(p, b, timeout) ==
    IF p.shut THEN [res |-> "AlreadyShutdown", took |-> 0]
    ELSE IF b.need > timeout THEN [res |-> "Timeout", took |-> timeout]
    ELSE IF b.fails THEN [res |-> "InternalFailure", took |-> b.need]
    ELSE [res |-> "Ok", took |-> b.need]

\* the limit passed on as given, zero included
EffectiveLimitNoDefault(limit) == limit

\* if limit.is_zero() { limit = Duration::from_secs(10) }

EffectiveLimit(limit) == IF limit = 0 THEN DefaultLimit ELSE limit

\* the block with as_ref() in place of take(): the provider stays in its slot
ShutdownKindAsRef(acc, k, limit, beh) ==
    IF acc.otlp[k] = None THEN acc
    ELSE LET r == ProviderShutdown(acc.prov[k], beh[k], limit)
         IN  [otlp     |-> acc.otlp,
              prov     |-> [acc.prov EXCEPT ![k] = [calls |-> @.calls + 1, shut |-> TRUE]],
              is_error |-> acc.is_error \/ r.res # "Ok",
              errors   |-> IF r.res # "Ok"
                           THEN [acc.errors EXCEPT ![k] = Some(r.res)] ELSE acc.errors,
              calls    |-> Append(acc.calls, [kind |-> k, timeout |-> limit,
                                                 res |-> r.res, took |-> r.took]),
              elapsed  |-> acc.elapsed + r.took]

\* the block with `?` in place of if-let-Err: nothing runs after a failure
ShutdownKindEarlyReturn(acc, k, limit, beh) ==
    IF acc.otlp[k] = None \/ acc.is_error THEN acc
    ELSE LET r == ProviderShutdown(acc.prov[k], beh[k], limit)
         IN  [otlp     |-> [acc.otlp EXCEPT ![k] = None],
              prov     |-> [acc.prov EXCEPT ![k] = [calls |-> @.calls + 1, shut |-> TRUE]],
              is_error |-> acc.is_error \/ r.res # "Ok",
              errors   |-> IF r.res # "Ok"
                           THEN [acc.errors EXCEPT ![k] = Some(r.res)] ELSE acc.errors,
              calls    |-> Append(acc.calls, [kind |-> k, timeout |-> limit,
                                                 res |-> r.res, took |-> r.took]),
              elapsed  |-> acc.elapsed + r.took]

\* the block with a Timeout answer dropped instead of recorded
ShutdownKindIgnoreTimeout(acc, k, limit, beh) ==
    IF acc.otlp[k] = None THEN acc
    ELSE LET r == ProviderShutdown(acc.prov[k], beh[k], limit)
             failed == r.res \notin {"Ok", "Timeout"}
         IN  [otlp     |-> [acc.otlp EXCEPT ![k] = None],
              prov     |-> [acc.prov EXCEPT ![k] = [calls |-> @.calls + 1, shut |-> TRUE]],
              is_error |-> acc.is_error \/ failed,
              errors   |-> IF failed
                           THEN [acc.errors EXCEPT ![k] = Some(r.res)] ELSE acc.errors,
              calls    |-> Append(acc.calls, [kind |-> k, timeout |-> limit,
                                                 res |-> r.res, took |-> r.took]),
              elapsed  |-> acc.elapsed + r.took]

\* one block of Otlp::shutdown, applied to the running state acc of the call:
\*   if let Some(x) = self.<k>.take() {
\*       if let Err(error) = x.shutdown_with_timeout(limit) {
\*           is_error = true; errors.<k> = Some(error);
\*       }
\*   }
ShutdownKind(acc, k, limit, beh) ==
    IF acc.otlp[k] = None THEN acc
    ELSE LET r == ProviderShutdown(acc.prov[k], beh[k], limit)
         IN  [otlp     |-> [acc.otlp EXCEPT ![k] = None],
              prov     |-> [acc.prov EXCEPT ![k] = [calls |-> @.calls + 1, shut |-> TRUE]],
              is_error |-> acc.is_error \/ r.res # "Ok",
              errors   |-> IF r.res # "Ok"
                           THEN [acc.errors EXCEPT ![k] = Some(r.res)] ELSE acc.errors,
              calls    |-> Append(acc.calls, [kind |-> k, timeout |-> limit,
                                                 res |-> r.res, took |-> r.took]),
              elapsed  |-> acc.elapsed + r.took]

\* the result with is_error never consulted
ShutdownResultAlwaysOk(acc) == "Ok"

\* if is_error { Err(errors) } else { Ok(()) }

ShutdownResult(acc) == IF acc.is_error THEN "Err" ELSE "Ok"

\* Otlp::shutdown(&mut self, limit): logs, then trace, then (when compiled in)
\* metrics, each with the same limit
shutdown(o, pr, limit0, beh, feats) ==
    LET limit == EffectiveLimit(limit0)
        a0 == [otlp |-> o, prov |-> pr, is_error |-> FALSE,
               errors |-> ShutdownErrorDefault, calls |-> <<>>, elapsed |-> 0]
        a1 == ShutdownKind(a0, "logs", limit, beh)
        a2 == ShutdownKind(a1, "trace", limit, beh)
        a3 == IF feats.metrics THEN ShutdownKind(a2, "metrics", limit, beh) ELSE a2
    IN  [otlp |-> a3.otlp, prov |-> a3.prov, errors |-> a3.errors, calls |-> a3.calls,
         elapsed |-> a3.elapsed, ret |-> ShutdownResult(a3)]

\* a drop that unwraps the result of shutdown
DropOutcomeExpect(r) == IF r.ret = "Err" THEN "panicked" ELSE "dropped"

\* impl Drop for Otlp, `let _ =`: the result of shutdown is discarded
DropOutcome(r) == "dropped"

\* a handle without a Drop impl: the providers are released unasked
DropNoShutdown(o, pr, beh, feats) ==
    [otlp |-> OtlpNew, prov |-> pr, errors |-> ShutdownErrorDefault, calls |-> <<>>,
     elapsed |-> 0, ret |-> "Ok"]

\* impl Drop for Otlp: self.shutdown(Duration::ZERO)
drop(o, pr, beh, feats) == shutdown(o, pr, DropLimit, beh, feats)

(* ------------------------------ Builder ------------------------------- *)

\* the transports an exporter is built over
Transports == {"grpc", "http", "datadog"}

\* the self.otlp.<k>.is_some() test of a call that enables metrics, written
\* against the trace slot
AlreadyInitializedTraceForMetrics(o, k) ==
    IF k = "metrics" THEN o["trace"] # None ELSE o[k] # None

\* if self.otlp.<k>.is_some() { panic!("... is already initialized") }
AlreadyInitialized(o, k) == o[k] # None

\* the match with an agent arm that builds an exporter for every kind
ExporterForAgentAnyKind(k, protocol, feats) ==
    CASE protocol = "Grpc" ->
            IF feats.grpc THEN "grpc" ELSE "missing_grpc_feature"
      [] protocol = "DatadogAgent" ->
            IF feats.datadog THEN "datadog" ELSE "missing_datadog_feature"
      [] OTHER ->
            IF feats.http THEN "http" ELSE "missing_http_feature"

\* the match without a Protocol::DatadogAgent arm where the datadog feature is
\* off, so that the agent protocol falls through to the `http =>` arm
ExporterForNoAgentArm(k, protocol, feats) ==
    CASE protocol = "Grpc" ->
            IF feats.grpc THEN "grpc" ELSE "missing_grpc_feature"
      [] protocol = "DatadogAgent" /\ feats.datadog ->
            IF k = "trace" THEN "datadog" ELSE "unsupported_datadog_feature"
      [] OTHER ->
            IF feats.http THEN "http" ELSE "missing_http_feature"

\* `match self.destination.protocol` of with_logs / with_trace / with_metrics:
\* the transport the exporter is built over, or the function that panics
ExporterFor(k, protocol, feats) ==
    CASE protocol = "Grpc" ->
            IF feats.grpc THEN "grpc" ELSE "missing_grpc_feature"
      [] protocol = "DatadogAgent" ->
            IF feats.datadog
            THEN IF k = "trace" THEN "datadog" ELSE "unsupported_datadog_feature"
            ELSE "missing_datadog_feature"
      [] OTHER ->
            IF feats.http THEN "http" ELSE "missing_http_feature"

\* the cfg(any(...)) guarding the block that builds and stores the provider
StoreCompiled(k, feats) ==
    feats.grpc \/ feats.http \/ (k = "trace" /\ feats.datadog)

\* the provider built around the exporter
Provider(k, transport) == [kind |-> k, transport |-> transport]

\* an assignment that always goes to the logs slot
SetProviderLogsSlot(o, k, p) == [o EXCEPT !["logs"] = p]

\* this.otlp.<k> = Some(provider)
SetProvider(o, k, p) == [o EXCEPT ![k] = p]

\* with_logs / with_trace / with_metrics on a builder owning o; buildOk says
\* whether header conversion and the exporter's build() succeed.  The result
\* names the panic, if any, and the slots of the builder returned
with_kind(o, k, protocol, feats, buildOk) ==
    IF AlreadyInitialized(o, k)
    THEN [panic |-> Some("already initialized"), otlp |-> o]
    ELSE LET e == ExporterFor(k, protocol, feats)
         IN  IF e \notin Transports THEN [panic |-> Some(e), otlp |-> o]
             ELSE IF ~buildOk THEN [panic |-> Some("failed to initialize exporter"), otlp |-> o]
             ELSE IF ~StoreCompiled(k, feats) THEN [panic |-> Some("not compiled"), otlp |-> o]
             ELSE [panic |-> None, otlp |-> SetProvider(o, k, Some(Provider(k, e)))]

\* Builder::with_logs, with_trace, with_metrics.  The call consumes the
\* builder: when it panics, unwinding drops the builder and the Otlp in it
With(k) ==
    /\ pc = "building"
    /\ k = "metrics" => features.metrics
    /\ \E buildOk \in BOOLEAN :
         LET w == with_kind(otlp, k, destination.protocol, features, buildOk)
         IN  IF w.panic = None
             THEN /\ otlp' = w.otlp
                  /\ enabled' = enabled \cup {k}
                  /\ last' = Call("with", Some(k), Populated(otlp), {}, 0, NoShutdown, "Builder", None)
                  /\ UNCHANGED <<builder, prov, pc>>
             ELSE \E beh \in Behaviours(Populated(otlp)) :
                    LET d == drop(otlp, prov, beh, features)
                    IN  /\ otlp' = d.otlp
                        /\ prov' = d.prov
                        /\ pc' = "panicked"
                        /\ builder' = BuilderNew
                        /\ last' = Call("with", Some(k), Populated(otlp), {}, 0, d, "panic", w.panic)
                        /\ UNCHANGED enabled
    /\ UNCHANGED <<features, destination, atFinish, nShutdown, layer, lcall, nConfig>>
    /\ UNCHANGED extraVars

WithLogs == With("logs")

WithTrace == With("trace")

WithMetrics == With("metrics")

\* Builder::with_header: self.headers.push((key, value))
WithHeader ==
    /\ pc = "building"
    /\ Len(builder.headers) < MaxHeaders
    /\ \E h \in HeaderPairs :
         builder' = [builder EXCEPT !.headers = Append(@, h)]
    /\ last' = Call("with_header", None, Populated(otlp), {}, 0, NoShutdown, "Builder", None)
    /\ UNCHANGED <<features, destination, otlp, prov, pc, enabled, atFinish, nShutdown, layer, lcall, nConfig>>
    /\ UNCHANGED extraVars

\* Builder::with_timeout: self.timeout = timeout
WithTimeout ==
    /\ pc = "building"
    /\ \E t \in Timeouts : builder' = [builder EXCEPT !.timeout = t]
    /\ last' = Call("with_timeout", None, Populated(otlp), {}, 0, NoShutdown, "Builder", None)
    /\ UNCHANGED <<features, destination, otlp, prov, pc, enabled, atFinish, nShutdown, layer, lcall, nConfig>>
    /\ UNCHANGED extraVars

\* Builder::with_compression: self.compression = compression
WithCompression ==
    /\ pc = "building"
    /\ \E c \in BOOLEAN : builder' = [builder EXCEPT !.compression = c]
    /\ last' = Call("with_compression", None, Populated(otlp), {}, 0, NoShutdown, "Builder", None)
    /\ UNCHANGED <<features, destination, otlp, prov, pc, enabled, atFinish, nShutdown, layer, lcall, nConfig>>
    /\ UNCHANGED extraVars

\* Builder::finish: the builder is consumed and its Otlp returned
Finish ==
    /\ pc = "building"
    /\ pc' = "finished"
    /\ atFinish' = Populated(otlp)
    /\ builder' = BuilderNew
    /\ last' = Call("finish", None, Populated(otlp), {}, 0, NoShutdown, "Otlp", None)
    /\ UNCHANGED <<features, destination, otlp, prov, enabled, nShutdown, layer, lcall, nConfig>>
    /\ UNCHANGED extraVars

(* ------------------------------ the handle ---------------------------- *)

\* kinds whose provider has been asked to shut down
ShutKinds(pr) == {k \in Kinds : pr[k].shut}

\* an explicit Otlp::shutdown(limit) by the owner of the handle
Shutdown ==
    /\ pc = "finished"
    /\ nShutdown < MaxShutdowns
    /\ \E limit \in Limits, beh \in Behaviours(Populated(otlp)) :
         LET r == shutdown(otlp, prov, limit, beh, features)
         IN  /\ otlp' = r.otlp
             /\ prov' = r.prov
             /\ last' = Call("shutdown", None, Populated(otlp), ShutKinds(prov), limit, r, r.ret, None)
    /\ nShutdown' = nShutdown + 1
    /\ UNCHANGED <<features, destination, builder, pc, enabled, atFinish, layer, lcall, nConfig>>
    /\ UNCHANGED extraVars

\* the handle goes out of scope: Drop for Otlp
Drop ==
    /\ pc = "finished"
    /\ \E beh \in Behaviours(Populated(otlp)) :
         LET r == drop(otlp, prov, beh, features)
         IN  /\ otlp' = r.otlp
             /\ prov' = r.prov
             /\ pc' = DropOutcome(r)
             /\ last' = Call("drop", None, Populated(otlp), ShutKinds(prov), DropLimit, r, "unit", None)
    /\ UNCHANGED <<features, destination, builder, enabled, atFinish, nShutdown, layer, lcall, nConfig>>
    /\ UNCHANGED extraVars

Next ==
    \/ WithLogs
    \/ WithTrace
    \/ WithMetrics
    \/ WithHeader
    \/ WithTimeout
    \/ WithCompression
    \/ Finish
    \/ Shutdown
    \/ Drop

Spec == Init /\ [][Next]_vars

(* ------------------------------ claims -------------------------------- *)

\* kinds on whose provider the last call invoked shutdown_with_timeout
Attempted == {last.calls[i].kind : i \in 1..Len(last.calls)}

\* kinds whose provider answered the last call with an error
Failed == {last.calls[i].kind : i \in {j \in 1..Len(last.calls) : last.calls[j].res # "Ok"}}

\* C1: one Otlp::shutdown call invokes shutdown_with_timeout once on every
\* provider that was populated when it started, also on the kinds that come
\* after a kind whose shutdown failed, and when it returns every slot of the
\* handle is empty
C1_ShutdownAttemptsEveryProvider ==
    last.op = "shutdown" =>
        /\ Attempted = last.pre
        /\ Len(last.calls) = Cardinality(last.pre)
        /\ Populated(otlp) = {}

\* C1 witness: logs failed, trace and metrics were still shut down
C1_Witness ==
    /\ last.op = "shutdown"
    /\ last.pre = Kinds
    /\ last.errors["logs"] # None
    /\ Attempted = Kinds
    /\ Populated(otlp) = {}

\* C2: Otlp::shutdown returns Ok exactly when no provider it shut down
\* answered with an error (so also when no provider is populated), and the
\* ShutdownError of an Err holds, for each kind, the error its provider
\* answered and nothing for a kind that succeeded or was not populated
C2_ResultAggregatesFailures ==
    last.op = "shutdown" =>
        /\ (last.ret = "Ok") <=> (Failed = {})
        /\ last.pre = {} => last.ret = "Ok"
        /\ \A k \in Kinds : (last.errors[k] # None) <=> (k \in Failed)
        /\ \A i \in 1..Len(last.calls) :
              last.calls[i].res # "Ok" =>
                  last.errors[last.calls[i].kind] = Some(last.calls[i].res)

\* C2 witness: trace failed while logs and metrics succeeded
C2_Witness ==
    /\ last.op = "shutdown"
    /\ last.pre = Kinds
    /\ last.ret = "Err"
    /\ last.errors["logs"] = None
    /\ last.errors["trace"] = Some("InternalFailure")
    /\ last.errors["metrics"] = None

\* C3: no provider is ever asked to shut down twice, and once the handle has
\* been dropped every provider that was populated at finish() has been asked
\* exactly once
C3_ShutdownExactlyOnce ==
    /\ \A k \in Kinds : prov[k].calls <= 1
    /\ pc = "dropped" => \A k \in atFinish : prov[k].calls = 1

\* C3 witness: a full handle shut down explicitly twice and then dropped
C3_Witness ==
    /\ pc = "dropped"
    /\ nShutdown = 2
    /\ atFinish = Kinds
    /\ \A k \in Kinds : prov[k].calls = 1

\* C4 as stated: a shutdown call on a handle whose providers were shut down by
\* an earlier call reports those kinds as errors
C4_SecondShutdownReportsError ==
    last.op = "shutdown" =>
        \A k \in last.shutBefore : last.errors[k] # None /\ last.ret = "Err"

\* C4 amended: a shutdown call finds the slot of every provider an earlier call
\* shut down empty, does not reach that provider again and records no error
\* for its kind; on a handle all of whose providers were shut down before it
\* returns Ok
C4_SecondShutdownSkipsReleased ==
    last.op = "shutdown" =>
        /\ \A k \in last.shutBefore :
              k \notin last.pre /\ k \notin Attempted /\ last.errors[k] = None
        /\ last.shutBefore = atFinish => last.ret = "Ok"

\* C4 witness: the second shutdown of a full handle
C4_Witness ==
    /\ last.op = "shutdown"
    /\ nShutdown = 2
    /\ last.shutBefore = Kinds
    /\ last.ret = "Ok"

\* C5: dropping a handle that was never shut down explicitly shuts every
\* populated provider down with the default limit of 10 seconds, and whatever
\* the providers answer the drop returns normally with nothing to report
C5_DropShutsDownAndSwallows ==
    (last.op = "drop" /\ nShutdown = 0) =>
        /\ Attempted = atFinish
        /\ \A i \in 1..Len(last.calls) : last.calls[i].timeout = DefaultLimit
        /\ pc = "dropped"
        /\ last.ret = "unit"

\* C5 witness: a drop during which a provider failed
C5_Witness ==
    /\ last.op = "drop"
    /\ nShutdown = 0
    /\ atFinish = Kinds
    /\ Failed # {}
    /\ pc = "dropped"

\* C6: shutdown(0) hands every provider 10 seconds and any other limit is
\* handed on unchanged; for every handle state and every provider behaviour
\* shutdown(0) and shutdown(10) give the same result, errors and handle
C6_ZeroLimitIsTenSeconds ==
    /\ last.op = "shutdown" =>
          \A i \in 1..Len(last.calls) :
              last.calls[i].timeout = IF last.limit = 0 THEN 10 ELSE last.limit
    /\ pc = "finished" =>
          \A beh \in Behaviours(Populated(otlp)) :
              shutdown(otlp, prov, 0, beh, features) = shutdown(otlp, prov, 10, beh, features)

\* C6 witness: shutdown(0) during which a provider needing more than 10
\* seconds timed out and another finished
C6_Witness ==
    /\ last.op = "shutdown"
    /\ last.limit = 0
    /\ \E i, j \in 1..Len(last.calls) :
          /\ last.calls[i].res = "Timeout" /\ last.calls[i].took = 10
          /\ last.calls[j].res = "Ok"

\* the limit the providers of the last shutdown call were given
GivenLimit == IF last.limit = 0 THEN 10 ELSE last.limit

\* C7 as stated: the limit bounds the whole shutdown call
C7_LimitBoundsWholeCall ==
    last.op = "shutdown" => last.elapsed <= GivenLimit

\* C7 amended: shutdown(limit) blocks while the populated providers are shut
\* down one after the other, each for at most the limit, so the call lasts at
\* most the limit times the number of populated providers; every kind that
\* had not finished within its own limit is reported as failed
C7_LimitBoundsEachKind ==
    last.op = "shutdown" =>
        /\ \A i \in 1..Len(last.calls) :
              /\ last.calls[i].timeout = GivenLimit
              /\ last.calls[i].took <= GivenLimit
              /\ last.calls[i].res = "Timeout" =>
                    /\ last.ret = "Err"
                    /\ last.errors[last.calls[i].kind] = Some("Timeout")
        /\ last.elapsed <= Cardinality(last.pre) * GivenLimit

\* C7 witness: two providers each used up the whole limit
C7_Witness ==
    /\ last.op = "shutdown"
    /\ last.elapsed >= 2 * GivenLimit
    /\ \E i \in 1..Len(last.calls) : last.calls[i].res = "Timeout"

\* C8: while a builder is being populated its populated slots are exactly the
\* kinds enabled on it so far, each slot holding a provider of its own kind,
\* and the handle finish() returns has exactly the enabled kinds populated
C8_PopulatedIsEnabled ==
    /\ pc = "building" => Populated(otlp) = enabled
    /\ pc \in {"finished", "dropped"} => atFinish = enabled
    /\ \A k \in Populated(otlp) : \A p \in otlp[k] : p.kind = k

\* C8 witness: logs and metrics, but not trace, were enabled (metrics first)
\* and finish() returned a handle with exactly those two
C8_Witness ==
    /\ last.op = "finish"
    /\ pc = "finished"
    /\ enabled = {"logs", "metrics"}
    /\ Populated(otlp) = {"logs", "metrics"}

\* C9: a with_logs, with_trace or with_metrics call for a kind that is already
\* enabled panics with the "already initialized" message whatever was called
\* in between, so a call that returns the builder has set a slot that was empty
C9_DoubleEnablePanics ==
    \A k \in Kinds :
        (last.op = "with" /\ last.kind = Some(k)) =>
            /\ k \in last.pre =>
                  /\ pc = "panicked"
                  /\ last.ret = "panic"
                  /\ last.msg = Some("already initialized")
            /\ last.ret = "Builder" => k \notin last.pre /\ k \in Populated(otlp)

\* C9 witness: with_metrics on a builder that has metrics enabled
C9_Witness ==
    /\ last.op = "with"
    /\ last.kind = Some("metrics")
    /\ last.pre = {"trace", "metrics"}
    /\ pc = "panicked"

\* whether the transport of the destination's protocol is compiled in
TransportCompiledIn ==
    CASE destination.protocol = "Grpc" -> features.grpc
      [] destination.protocol = "DatadogAgent" -> features.datadog
      [] OTHER -> features.http

\* whether the destination's protocol can export kind k in this build
Supported(k) ==
    /\ TransportCompiledIn
    /\ destination.protocol = "DatadogAgent" => k = "trace"

Interests == {"never", "sometimes", "always"}

\* tracing_subscriber::filter::LevelFilter::OFF, the least of the level
\* filters: OFF < ERROR < WARN < INFO < DEBUG < TRACE are 0 .. 5
LevelOff == 0

LevelFilters == LevelOff..5

\* the callbacks without a return value, all written with impl_method!
LifecycleCallbacks ==
    {"on_layer", "on_new_span", "on_record", "on_follows_from", "on_event",
     "on_enter", "on_exit", "on_close", "on_id_change"}

\* the cargo features layer.rs is compiled under; tracing-metrics brings the
\* metrics field of OtlpLayer with it
LayerFeatureSets ==
    [grpc : {TRUE}, http : {TRUE}, datadog : {TRUE}, metrics : {TRUE},
     tracing_metrics : BOOLEAN]

\* the OtlpLayer values: each field None or the adapter of its kind
Layers(feats) ==
    {l \in [Kinds -> {None} \cup {Some(k) : k \in Kinds}] :
        /\ \A k \in Kinds : l[k] \in {None, Some(k)}
        /\ ~feats.tracing_metrics => l["metrics"] = None}

\* `if let Some(x) = self.<k>.as_ref()`, the metrics field being compiled
\* only with tracing-metrics
Active(l, feats, k) ==
    /\ l[k] # None
    /\ k = "metrics" => feats.tracing_metrics

ActiveSet(l, feats) == {k \in Kinds : Active(l, feats, k)}

\* one entry of the record of a call: the adapter reached and the method
\* invoked on it
Ask(k, method) == [adapter |-> k, method |-> method]

\* impl_method! written as an if / else-if chain
impl_methodElseIf(l, feats, method) ==
    IF Active(l, feats, "trace") THEN <<Ask("trace", method)>>
    ELSE IF Active(l, feats, "logs") THEN <<Ask("logs", method)>>
    ELSE IF Active(l, feats, "metrics") THEN <<Ask("metrics", method)>>
    ELSE <<>>

\* impl_method! visiting logs before trace
impl_methodLogsFirst(l, feats, method) ==
    LET a1 == IF Active(l, feats, "logs") THEN <<Ask("logs", method)>> ELSE <<>>
        a2 == IF Active(l, feats, "trace") THEN Append(a1, Ask("trace", method)) ELSE a1
        a3 == IF Active(l, feats, "metrics") THEN Append(a2, Ask("metrics", method)) ELSE a2
    IN  a3

\* impl_method!(self.as_ref().method(..)): the calls it makes, in order
impl_method(l, feats, method) ==
    LET a1 == IF Active(l, feats, "trace") THEN <<Ask("trace", method)>> ELSE <<>>
        a2 == IF Active(l, feats, "logs") THEN Append(a1, Ask("logs", method)) ELSE a1
        a3 == IF Active(l, feats, "metrics") THEN Append(a2, Ask("metrics", method)) ELSE a2
    IN  a3

\* apply_new_interest that upgrades from never only
apply_new_interestFromNever(interest, new_interest) ==
    IF interest = "never" /\ new_interest # "never" THEN new_interest ELSE interest

\* apply_new_interest that keeps whatever was answered last
apply_new_interestLastWins(interest, new_interest) == new_interest

\* fn apply_new_interest(interest: &mut Interest, new_interest: Interest)
apply_new_interest(interest, new_interest) ==
    IF \/ (interest = "sometimes" /\ new_interest = "always")
       \/ (interest = "never" /\ new_interest # "never")
    THEN new_interest
    ELSE interest

\* one `if let Some(x) = self.<k>.as_ref() { .. apply_new_interest(..) }`
\* block of register_callsite; ans[k] is what adapter k answers
InterestBlock(acc, l, feats, k, ans) ==
    IF ~Active(l, feats, k) THEN acc
    ELSE [interest |-> apply_new_interest(acc.interest, Unwrap(ans[k])),
          asked |-> Append(acc.asked, Ask(k, "register_callsite"))]

\* OtlpLayer::register_callsite
register_callsite(l, feats, ans) ==
    LET a0 == [interest |-> "never", asked |-> <<>>]
        a1 == InterestBlock(a0, l, feats, "trace", ans)
        a2 == InterestBlock(a1, l, feats, "logs", ans)
        a3 == InterestBlock(a2, l, feats, "metrics", ans)
    IN  [result |-> Some(a3.interest), asked |-> a3.asked]

\* `is_enabled |= x`
OrAssign(is_enabled, x) == is_enabled \/ x

\* `is_enabled &= x`
AndAssign(is_enabled, x) == is_enabled /\ x

\* one `if let Some(x) = self.<k>.as_ref() { is_enabled &= x.enabled(..) }`
\* block of enabled and of event_enabled
EnabledBlock(acc, l, feats, k, ans, method) ==
    IF ~Active(l, feats, k) THEN acc
    ELSE [is_enabled |-> AndAssign(acc.is_enabled, Unwrap(ans[k])),
          asked |-> Append(acc.asked, Ask(k, method))]

\* OtlpLayer::enabled
enabled_(l, feats, ans) ==
    LET a0 == [is_enabled |-> TRUE, asked |-> <<>>]
        a1 == EnabledBlock(a0, l, feats, "trace", ans, "enabled")
        a2 == EnabledBlock(a1, l, feats, "logs", ans, "enabled")
        a3 == EnabledBlock(a2, l, feats, "metrics", ans, "enabled")
    IN  [result |-> Some(a3.is_enabled), asked |-> a3.asked]

\* OtlpLayer::event_enabled
event_enabled(l, feats, ans) ==
    LET a0 == [is_enabled |-> TRUE, asked |-> <<>>]
        a1 == EnabledBlock(a0, l, feats, "trace", ans, "event_enabled")
        a2 == EnabledBlock(a1, l, feats, "logs", ans, "event_enabled")
        a3 == EnabledBlock(a2, l, feats, "metrics", ans, "event_enabled")
    IN  [result |-> Some(a3.is_enabled), asked |-> a3.asked]

\* core::cmp::min on level filters
Min(a, b) == IF a <= b THEN a ELSE b

\* one block of max_level_hint:
\*   if let Some(x) = self.<k>.as_ref() {
\*       let new_level = x.max_level_hint()?;
\*       level = core::cmp::min(level, new_level);
\*   }
\* ans[k] is Some(hint) of adapter k, the hint itself being None or Some(level);
\* acc.returned says that an earlier `?` has returned None already
HintBlock(acc, l, feats, k, ans) ==
    IF acc.returned \/ ~Active(l, feats, k) THEN acc
    ELSE LET hint == Unwrap(ans[k])
         IN  IF hint = None
             THEN [returned |-> TRUE, level |-> acc.level,
                   asked |-> Append(acc.asked, Ask(k, "max_level_hint"))]
             ELSE [returned |-> FALSE, level |-> Min(acc.level, Unwrap(hint)),
                   asked |-> Append(acc.asked, Ask(k, "max_level_hint"))]

\* OtlpLayer::max_level_hint
max_level_hint(l, feats, ans) ==
    LET a0 == [returned |-> FALSE, level |-> LevelOff, asked |-> <<>>]
        a1 == HintBlock(a0, l, feats, "trace", ans)
        a2 == HintBlock(a1, l, feats, "logs", ans)
        a3 == HintBlock(a2, l, feats, "metrics", ans)
    IN  [result |-> IF a3.returned THEN Some(None) ELSE Some(Some(a3.level)),
         asked |-> a3.asked]

\* the answers of the adapters of l drawn from the set V (no answer from a
\* field that holds no adapter)
Answers(l, feats, V) ==
    {[k \in {"logs", "trace", "metrics"} |->
         IF k \in ActiveSet(l, feats) THEN Some(f[k]) ELSE None] :
       f \in [ActiveSet(l, feats) -> V]}

\* the hints an adapter can give
Hints == {None} \cup {Some(v) : v \in LevelFilters}

\* a lifecycle callback of the composite layer
Callback(method) ==
    /\ lcall' = [method |-> method, asked |-> impl_method(layer, features, method),
                 answers |-> LayerNone, result |-> None]
    /\ UNCHANGED <<features, layer>>
    /\ UNCHANGED builderVars
    /\ UNCHANGED extraVars

OnLayer == Callback("on_layer")

OnNewSpan == Callback("on_new_span")

OnRecord == Callback("on_record")

OnFollowsFrom == Callback("on_follows_from")

OnEvent == Callback("on_event")

OnEnter == Callback("on_enter")

OnExit == Callback("on_exit")

OnClose == Callback("on_close")

OnIdChange == Callback("on_id_change")

\* a query of the composite layer: the adapters answer ans
Query(method, r, ans) ==
    /\ lcall' = [method |-> method, asked |-> r.asked, answers |-> ans, result |-> r.result]
    /\ UNCHANGED <<features, layer>>
    /\ UNCHANGED builderVars
    /\ UNCHANGED extraVars

RegisterCallsite ==
    \E ans \in Answers(layer, features, Interests) :
        Query("register_callsite", register_callsite(layer, features, ans), ans)

Enabled ==
    \E ans \in Answers(layer, features, BOOLEAN) :
        Query("enabled", enabled_(layer, features, ans), ans)

EventEnabled ==
    \E ans \in Answers(layer, features, BOOLEAN) :
        Query("event_enabled", event_enabled(layer, features, ans), ans)

MaxLevelHint ==
    \E ans \in Answers(layer, features, Hints) :
        Query("max_level_hint", max_level_hint(layer, features, ans), ans)

\* an OtlpLayer with any set of adapters, beside a builder nobody touches
InitLayer ==
    /\ features \in LayerFeatureSets
    /\ layer \in Layers(features)
    /\ lcall = NoLayerCall
    /\ destination = [protocol |-> "Grpc"]
    /\ builder = BuilderNew
    /\ otlp = OtlpNew
    /\ prov = ProvNew
    /\ pc = "building"
    /\ enabled = {}
    /\ atFinish = {}
    /\ nShutdown = 0
    /\ last = Call("new", None, {}, {}, 0, NoShutdown, "Builder", None)
    /\ nConfig = 0
    /\ NoExtra

NextLayer ==
    \/ OnLayer
    \/ OnNewSpan
    \/ OnRecord
    \/ OnFollowsFrom
    \/ OnEvent
    \/ OnEnter
    \/ OnExit
    \/ OnClose
    \/ OnIdChange
    \/ RegisterCallsite
    \/ Enabled
    \/ EventEnabled
    \/ MaxLevelHint

SpecLayer == InitLayer /\ [][NextLayer]_vars

(* --------------------------- claims, layer ----------------------------- *)

\* how often the last layer call invoked method m on adapter k
TimesAsked(k, m) ==
    Cardinality({i \in 1..Len(lcall.asked) :
                    lcall.asked[i].adapter = k /\ lcall.asked[i].method = m})

\* the answers the active adapters gave to the last query
GivenAnswers == {Unwrap(lcall.answers[k]) : k \in ActiveSet(layer, features)}

\* C11: one lifecycle callback of the composite layer invokes that same
\* callback exactly once on every active adapter, never on an absent one, and
\* invokes nothing else
C11_CallbackReachesEveryAdapter ==
    lcall.method \in LifecycleCallbacks =>
        /\ \A k \in Kinds :
              TimesAsked(k, lcall.method) = IF k \in ActiveSet(layer, features) THEN 1 ELSE 0
        /\ \A i \in 1..Len(lcall.asked) : lcall.asked[i].method = lcall.method

\* C11 witness: on_event on a layer with a trace and a metrics adapter and no
\* logs adapter
C11_Witness ==
    /\ lcall.method = "on_event"
    /\ ActiveSet(layer, features) = {"trace", "metrics"}
    /\ Len(lcall.asked) = 2

\* the adapters the last layer call reached, in the order it reached them
AskedOrder == [i \in 1..Len(lcall.asked) |-> lcall.asked[i].adapter]

\* whether the adapters were reached in the order given by rank
InOrder(rank) ==
    \A i, j \in 1..Len(lcall.asked) : i < j => rank[AskedOrder[i]] < rank[AskedOrder[j]]

\* C12 as stated: a lifecycle callback reaches the active adapters in the
\* order logs, trace, metrics
C12_OrderLogsTraceMetrics ==
    lcall.method \in LifecycleCallbacks =>
        InOrder([k \in Kinds |-> CASE k = "logs" -> 1 [] k = "trace" -> 2 [] OTHER -> 3])

\* C12 amended: a lifecycle callback reaches the active adapters in the fixed
\* order trace, logs, metrics
C12_OrderTraceLogsMetrics ==
    lcall.method \in LifecycleCallbacks =>
        InOrder([k \in Kinds |-> CASE k = "trace" -> 1 [] k = "logs" -> 2 [] OTHER -> 3])

\* C12 witness: on_new_span on a layer with all three adapters
C12_Witness ==
    /\ lcall.method = "on_new_span"
    /\ AskedOrder = <<"trace", "logs", "metrics">>

\* never < sometimes < always
InterestRank(i) == CASE i = "never" -> 0 [] i = "sometimes" -> 1 [] OTHER -> 2

\* C13: register_callsite returns the greatest of the active adapters' answers
\* under never < sometimes < always, never when no adapter is active, and asks
\* every active adapter exactly once whatever the earlier ones answered
C13_InterestIsMaximum ==
    lcall.method = "register_callsite" =>
        /\ \A k \in Kinds :
              TimesAsked(k, "register_callsite")
                  = IF k \in ActiveSet(layer, features) THEN 1 ELSE 0
        /\ \A a \in GivenAnswers : InterestRank(a) <= InterestRank(Unwrap(lcall.result))
        /\ GivenAnswers = {} => lcall.result = Some("never")
        /\ GivenAnswers # {} => Unwrap(lcall.result) \in GivenAnswers

\* C13 witness: trace answers always first, logs and metrics are still asked,
\* logs answers sometimes
C13_Witness ==
    /\ lcall.method = "register_callsite"
    /\ lcall.answers["trace"] = Some("always")
    /\ lcall.answers["logs"] = Some("sometimes")
    /\ lcall.answers["metrics"] = Some("never")
    /\ Len(lcall.asked) = 3
    /\ lcall.result = Some("always")

\* C14: enabled and event_enabled return true exactly when every active
\* adapter answers true; an absent adapter is not asked, and with no active
\* adapter both return true
C14_EnabledIsConjunction ==
    lcall.method \in {"enabled", "event_enabled"} =>
        /\ lcall.result = Some(\A k \in ActiveSet(layer, features) : lcall.answers[k] = Some(TRUE))
        /\ ActiveSet(layer, features) = {} => lcall.result = Some(TRUE)
        /\ \A k \in Kinds :
              TimesAsked(k, lcall.method) = IF k \in ActiveSet(layer, features) THEN 1 ELSE 0

\* C14 witness: event_enabled with trace answering false and logs true
C14_Witness ==
    /\ lcall.method = "event_enabled"
    /\ ActiveSet(layer, features) = {"trace", "logs"}
    /\ lcall.answers["trace"] = Some(FALSE)
    /\ lcall.answers["logs"] = Some(TRUE)
    /\ lcall.result = Some(FALSE)

\* the levels the active adapters gave as their hint
ProvidedHints == {Unwrap(h) : h \in {g \in GivenAnswers : g # None}}

\* C15: max_level_hint returns the least of the hints the active adapters
\* provided, leaving out the adapters without a hint, and no hint when no
\* active adapter provided one
C15_HintIsMinimumOfProvided ==
    lcall.method = "max_level_hint" =>
        lcall.result =
            Some(IF ProvidedHints = {} THEN None
                 ELSE Some(CHOOSE m \in ProvidedHints : \A h \in ProvidedHints : m <= h))

\* the OtlpLayer of l with its adapters moved along the permutation p
MovedLayer(l, p) == [k \in Kinds |-> IF l[p[k]] = None THEN None ELSE Some(k)]

MovedAnswers(ans, p) == [k \in Kinds |-> ans[p[k]]]

\* the permutations of the three fields
Permutations3 == {p \in [Kinds -> Kinds] : \A k \in Kinds : \E j \in Kinds : p[j] = k}

\* what the query named method returns on layer l for the answers ans
QueryResult(method, l, feats, ans) ==
    CASE method = "register_callsite" -> register_callsite(l, feats, ans).result
      [] method = "enabled" -> enabled_(l, feats, ans).result
      [] method = "event_enabled" -> event_enabled(l, feats, ans).result
      [] OTHER -> max_level_hint(l, feats, ans).result

\* C16: what register_callsite, enabled, event_enabled and max_level_hint
\* return does not change when the adapters, each with its answer, are moved
\* to other fields of the layer and so consulted in another order
C16_ResultIsOrderIndependent ==
    lcall.method \in {"register_callsite", "enabled", "event_enabled", "max_level_hint"} =>
        \A p \in Permutations3 :
            (features.tracing_metrics \/ MovedLayer(layer, p)["metrics"] = None) =>
                QueryResult(lcall.method, MovedLayer(layer, p), features,
                            MovedAnswers(lcall.answers, p)) = lcall.result

\* C16 witness: register_callsite where the adapter asked first answers
\* sometimes and the one asked next answers never
C16_Witness ==
    /\ lcall.method = "register_callsite"
    /\ ActiveSet(layer, features) = {"trace", "logs"}
    /\ lcall.answers["trace"] = Some("sometimes")
    /\ lcall.answers["logs"] = Some("never")
    /\ lcall.result = Some("sometimes")

(* ----------------- exporters and samplers (builder.rs) ----------------- *)

\* sample rates are f64 in the code; here they are counted in tenths, so
\* 0.0 is 0 and 1.0 is 10, the two arguments of clamp(0.0, 1.0)
RateZero == 0

RateOne == 10

\* how far outside [0.0, 1.0] a configured rate lies, in tenths
MaxRateExcess == 5

\* most trailing slashes of a destination URL
MaxSlashes == 2

\* most with_header / with_timeout / with_compression calls on one builder
MaxConfigCalls == 2

SampleRates == {RateZero - MaxRateExcess, RateZero, 5, RateOne, RateOne + MaxRateExcess}

\* the headers callers add: two values for one key and a second key
ExportHeaderPairs == HeaderPairs \cup {<<"authorization", "other">>, <<"x-tenant", "a">>}

\* a string as the sequence of its pieces; "/" is always a piece of its own
Slashes(n) == [i \in 1..n |-> "/"]

\* destination URLs: a host with a path, then 0 .. MaxSlashes slashes
Urls == {<<"http://host:1234", "/", "otlp">> \o Slashes(n) : n \in 0..MaxSlashes}

\* str::trim_end_matches that removes one match at most
trim_end_matchesOnce(s, c) ==
    IF Len(s) > 0 /\ s[Len(s)] = c THEN SubSeq(s, 1, Len(s) - 1) ELSE s

\* str::trim_end_matches(c): s without every c it ends with
RECURSIVE trim_end_matches(_, _)
trim_end_matches(s, c) ==
    IF Len(s) > 0 /\ s[Len(s)] = c THEN trim_end_matches(SubSeq(s, 1, Len(s) - 1), c) ELSE s

\* the "/logs", "/traces", "/metrics" of the three format! calls
Suffix(k) ==
    CASE k = "logs" -> <<"/", "logs">>
      [] k = "trace" -> <<"/", "traces">>
      [] OTHER -> <<"/", "metrics">>

\* format!("{}/<kind>", self.destination.url.trim_end_matches('/'))
HttpEndpoint(k, url) == trim_end_matches(url, "/") \o Suffix(k)

\* Protocol::into_otel
into_otel(protocol) ==
    CASE protocol = "Grpc" -> "opentelemetry_otlp::Protocol::Grpc"
      [] protocol = "HttpJson" -> "opentelemetry_otlp::Protocol::HttpJson"
      [] protocol = "HttpBinary" -> "opentelemetry_otlp::Protocol::HttpBinary"
      [] OTHER -> "unreachable"

\* create_metadata_map: every pair appended, in order
create_metadata_map(headers) == headers

\* self.headers.iter().map(..).collect() into the map with_headers takes:
\* one value per key, that of the key's last pair
CollectHeaders(headers) ==
    {headers[i] : i \in {j \in 1..Len(headers) :
                            \A l \in (j + 1)..Len(headers) : headers[l][1] # headers[j][1]}}

\* gzip chosen from the builder's flag alone
GzipFlagOnly(compiled, compression) == compression

\* `if cfg!(feature = "<transport>-compression") && self.compression`
Gzip(compiled, compression) == compiled /\ compression

\* the exporter of the Protocol::Grpc arm: what the builder hands to the tonic
\* exporter builder
GrpcExporter(k, dest, b, feats) ==
    [transport |-> "grpc", endpoint |-> dest.url, protocol |-> None,
     gzip |-> Gzip(feats.grpc_compression, b.compression),
     metadata |-> IF b.headers # <<>> THEN create_metadata_map(b.headers) ELSE <<>>,
     headers |-> {}, timeout |-> Some(b.timeout)]

\* the exporter of the Protocol::DatadogAgent arm of with_trace:
\* new_pipeline().with_agent_endpoint(url).build_exporter()
DatadogExporter(k, dest, b, feats) ==
    [transport |-> "datadog", endpoint |-> dest.url, protocol |-> None,
     gzip |-> FALSE, metadata |-> <<>>, headers |-> {}, timeout |-> None]

\* the exporter of the `http =>` arm
HttpExporter(k, dest, b, feats) ==
    [transport |-> "http", endpoint |-> HttpEndpoint(k, dest.url),
     protocol |-> Some(into_otel(dest.protocol)),
     gzip |-> Gzip(feats.http_compression, b.compression),
     metadata |-> <<>>,
     headers |-> IF b.headers # <<>> THEN CollectHeaders(b.headers) ELSE {},
     timeout |-> Some(b.timeout)]

\* the exporter built by the arm ExporterFor selects
BuildExporter(transport, k, dest, b, feats) ==
    CASE transport = "grpc" -> GrpcExporter(k, dest, b, feats)
      [] transport = "datadog" -> DatadogExporter(k, dest, b, feats)
      [] OTHER -> HttpExporter(k, dest, b, feats)

\* f64::clamp that bounds from below only
clampLowOnly(x, min, max) == IF x < min THEN min ELSE x

\* f64::clamp(min, max)
clamp(x, min, max) == IF x < min THEN min ELSE IF x > max THEN max ELSE x

\* SpanLimits::DEFAULT
DefaultSpanLimit == 128

\* largest span limit a caller configures
MaxSpanLimit == 129

\* the u32 values callers pass to the with_max_* setters
LimitValues == {0, DefaultSpanLimit, MaxSpanLimit}

\* the fields of SpanLimits, named as declare_trace_limits! names them
LimitNames ==
    {"with_max_events_per_span", "with_max_attributes_per_span", "with_max_links_per_span",
     "with_max_attributes_per_link", "with_max_attributes_per_event"}

\* SpanLimits::new(): every limit at the default
SpanLimitsNew == [n \in LimitNames |-> DefaultSpanLimit]

\* apply_to that passes every limit on
apply_toAlways(limits) == [n \in LimitNames |-> Some(limits[n])]

\* SpanLimits::apply_to: the calls made on the TracerProviderBuilder, per
\* limit None (no call) or Some(value passed)
apply_to(limits) ==
    [n \in LimitNames |-> IF limits[n] # DefaultSpanLimit THEN Some(limits[n]) ELSE None]

\* TraceSettings::new(sample_rate)
TraceSettingsNew(sample_rate) ==
    [sample_rate |-> sample_rate, limits |-> SpanLimitsNew, respect_parent |-> TRUE]

\* set_trace_limit!(self.limits, name) of the setter called name
set_trace_limit(s, name, value) == [s EXCEPT !.limits[name] = value]

\* TraceSettings::with_respect_parent_sampling
with_respect_parent_sampling(settings, value) == [settings EXCEPT !.respect_parent = value]

\* the settings callers pass to with_trace
TraceSettingsSet ==
    {with_respect_parent_sampling(TraceSettingsNew(r), v) : r \in SampleRates, v \in BOOLEAN}

\* Sampler::TraceIdRatioBased(rate), AlwaysOnSampler, AlwaysOffSampler
TraceIdRatioBased(rate) == [name |-> "TraceIdRatioBased", rate |-> Some(rate), parent_based |-> FALSE]

AlwaysOnSampler == [name |-> "AlwaysOnSampler", rate |-> None, parent_based |-> FALSE]

AlwaysOffSampler == [name |-> "AlwaysOffSampler", rate |-> None, parent_based |-> FALSE]

\* Sampler::ParentBased(Box::new(sampler))
ParentBased(sampler) == [sampler EXCEPT !.parent_based = TRUE]

\* sampler selection that ignores respect_parent at the two ends
SamplerForEndsFirst(settings) ==
    LET sample_rate == clamp(settings.sample_rate, RateZero, RateOne)
    IN  IF sample_rate = RateZero THEN AlwaysOffSampler
        ELSE IF sample_rate = RateOne THEN AlwaysOnSampler
        ELSE IF settings.respect_parent THEN ParentBased(TraceIdRatioBased(sample_rate))
        ELSE TraceIdRatioBased(sample_rate)

\* the sampler with_trace gives the tracer provider
SamplerFor(settings) ==
    LET sample_rate == clamp(settings.sample_rate, RateZero, RateOne)
    IN  IF settings.respect_parent THEN ParentBased(TraceIdRatioBased(sample_rate))
        ELSE IF sample_rate = RateZero THEN AlwaysOffSampler
        ELSE IF sample_rate = RateOne THEN AlwaysOnSampler
        ELSE TraceIdRatioBased(sample_rate)

\* enum SamplingDecision
SamplingDecisions == {"Drop", "RecordOnly", "RecordAndSample"}

\* the parent contexts a span can start under: none, or a parent span that
\* was or was not sampled, with its trace state
ParentContexts ==
    {None} \cup {Some([sampled |-> b, trace_state |-> ts]) : b \in BOOLEAN, ts \in {"", "vendor=1"}}

\* `match parent_context { Some(ctx) => ..trace_state().clone(), None => default }`
TraceStateOf(parent_context) ==
    IF parent_context = None THEN "" ELSE Unwrap(parent_context).trace_state

\* the results should_sample can return for a span under parent_context.
\* AlwaysOnSampler and AlwaysOffSampler are the repository's; what the SDK's
\* ratio and parent-based samplers decide depends on the trace id and is left open
should_sample(sampler, parent_context) ==
    {[decision |-> d, trace_state |-> TraceStateOf(parent_context)] :
        d \in CASE sampler = AlwaysOnSampler -> {"RecordAndSample"}
                [] sampler = AlwaysOffSampler -> {"Drop"}
                [] OTHER -> SamplingDecisions}

\* the provider built around exporter e, a tracer provider with its sampler
ExportProvider(k, e, settings) ==
    [kind |-> k, transport |-> e.transport, exporter |-> e,
     sampler |-> IF k = "trace" THEN Some(SamplerFor(settings)) ELSE None,
     limits |-> IF k = "trace" THEN Some(apply_to(settings.limits)) ELSE None]

\* with_logs / with_trace / with_metrics with the exporter and the sampler
\* they build, on a builder b owning o
with_export(o, k, dest, b, feats, settings, buildOk) ==
    IF AlreadyInitialized(o, k)
    THEN [panic |-> Some("already initialized"), otlp |-> o]
    ELSE LET t == ExporterFor(k, dest.protocol, feats)
         IN  IF t \notin Transports THEN [panic |-> Some(t), otlp |-> o]
             ELSE IF t = "http" /\ into_otel(dest.protocol) = "unreachable"
             THEN [panic |-> Some("unreachable"), otlp |-> o]
             ELSE IF ~buildOk THEN [panic |-> Some("failed to initialize exporter"), otlp |-> o]
             ELSE IF ~StoreCompiled(k, feats) THEN [panic |-> Some("not compiled"), otlp |-> o]
             ELSE [panic |-> None,
                   otlp |-> SetProvider(o, k,
                              Some(ExportProvider(k, BuildExporter(t, k, dest, b, feats), settings)))]

\* the record kept of one call on a builder or on a sampler: the arguments,
\* the builder configuration and the slots before it, and what it returned
ExportCall(op, kind, arg, ret) ==
    [op |-> op, kind |-> kind, arg |-> arg, config |-> builder, before |-> otlp, ret |-> ret]

\* providers that stop at once and report no failure: what a slow or failing
\* provider does to a shutdown is the subject of Spec, not of the
\* specifications of the export configuration
PromptBehaviours(S) ==
    {beh \in Behaviours(S) : \A k \in S : beh[k].need = 1 /\ ~beh[k].fails}

\* Builder::with_logs / with_trace / with_metrics, the settings drawn from S
Export(k, S) ==
    /\ pc = "building"
    /\ k = "metrics" => features.metrics
    /\ \E settings \in S, buildOk \in BOOLEAN :
         LET w == with_export(otlp, k, destination, builder, features, settings, buildOk)
         IN  IF w.panic = None
             THEN /\ otlp' = w.otlp
                  /\ enabled' = enabled \cup {k}
                  /\ last' = ExportCall("with", Some(k), Some(settings), None)
                  /\ UNCHANGED <<builder, prov, pc>>
             ELSE \E beh \in PromptBehaviours(Populated(otlp)) :
                    LET d == drop(otlp, prov, beh, features)
                    IN  /\ otlp' = d.otlp
                        /\ prov' = d.prov
                        /\ pc' = "panicked"
                        /\ builder' = BuilderNew
                        /\ last' = ExportCall("with", Some(k), Some(settings), w.panic)
                        /\ UNCHANGED enabled
    /\ UNCHANGED <<features, destination, atFinish, nShutdown, nConfig>>
    /\ UNCHANGED layerVars
    /\ UNCHANGED extraVars

\* the trace settings of a caller who configures nothing about sampling
DefaultSettings == {TraceSettingsNew(RateOne)}

ExportLogs == Export("logs", DefaultSettings)

ExportTrace == Export("trace", DefaultSettings)

ExportMetrics == Export("metrics", DefaultSettings)

\* with_trace with any settings
ExportTraceSampled == Export("trace", TraceSettingsSet)

\* a change of the shared export configuration
ExportConfig(op, arg, b) ==
    /\ pc = "building"
    /\ nConfig < MaxConfigCalls
    /\ builder' = b
    /\ nConfig' = nConfig + 1
    /\ last' = ExportCall(op, None, Some(arg), None)
    /\ UNCHANGED <<features, destination, otlp, prov, pc, enabled, atFinish, nShutdown>>
    /\ UNCHANGED layerVars
    /\ UNCHANGED extraVars

\* Builder::with_header
ExportWithHeader ==
    \E h \in ExportHeaderPairs :
        ExportConfig("with_header", h, [builder EXCEPT !.headers = Append(@, h)])

\* Builder::with_timeout
ExportWithTimeout ==
    \E t \in Timeouts : ExportConfig("with_timeout", t, [builder EXCEPT !.timeout = t])

\* Builder::with_compression
ExportWithCompression ==
    \E c \in BOOLEAN : ExportConfig("with_compression", c, [builder EXCEPT !.compression = c])

\* Builder::finish
ExportFinish ==
    /\ pc = "building"
    /\ pc' = "finished"
    /\ atFinish' = Populated(otlp)
    /\ last' = ExportCall("finish", None, None, None)
    /\ builder' = BuilderNew
    /\ UNCHANGED <<features, destination, otlp, prov, enabled, nShutdown, nConfig>>
    /\ UNCHANGED layerVars
    /\ UNCHANGED extraVars

\* a span starts: the tracer provider asks its sampler
ShouldSample ==
    /\ pc \in {"building", "finished"}
    /\ otlp["trace"] # None
    /\ \E parent_context \in ParentContexts :
         \E r \in should_sample(Unwrap(Unwrap(otlp["trace"]).sampler), parent_context) :
            last' = ExportCall("should_sample", Some("trace"), Some(parent_context), Some(r))
    /\ UNCHANGED <<features, destination, builder, otlp, prov, pc, enabled, atFinish,
                   nShutdown, nConfig>>
    /\ UNCHANGED layerVars
    /\ UNCHANGED extraVars

\* the cargo features with the two compression features told apart
ExportFeatureSets ==
    [grpc : {TRUE}, http : {TRUE}, datadog : {TRUE}, metrics : {TRUE},
     grpc_compression : BOOLEAN, http_compression : BOOLEAN]

\* a new Builder for a destination out of D under the features F
InitExport(F, D) ==
    /\ features \in F
    /\ destination \in D
    /\ builder = BuilderNew
    /\ otlp = OtlpNew
    /\ prov = ProvNew
    /\ pc = "building"
    /\ enabled = {}
    /\ atFinish = {}
    /\ nShutdown = 0
    /\ nConfig = 0
    /\ NoExtra
    /\ last = ExportCall("new", None, None, None)
    /\ layer = LayerNone
    /\ lcall = NoLayerCall

\* builders for every protocol and URL, compiled with both compression
\* features, whose callers leave the shared configuration alone
InitPipeline ==
    InitExport({f \in ExportFeatureSets : f.grpc_compression /\ f.http_compression},
               [protocol : Protocols, url : Urls])

NextPipeline ==
    \/ ExportLogs
    \/ ExportTraceSampled
    \/ ExportMetrics
    \/ ExportFinish
    \/ ShouldSample

SpecPipeline == InitPipeline /\ [][NextPipeline]_vars

\* builders for every protocol and one URL under every choice of the
\* compression features, whose callers change the shared configuration
InitConfig ==
    InitExport(ExportFeatureSets,
               [protocol : Protocols, url : {<<"http://host:1234", "/">>}])

NextConfig ==
    \/ ExportWithHeader
    \/ ExportWithTimeout
    \/ ExportWithCompression
    \/ ExportLogs
    \/ ExportTrace
    \/ ExportMetrics
    \/ ExportFinish

SpecConfig == InitConfig /\ [][NextConfig]_vars

(* ------------------- claims, exporters and samplers -------------------- *)

\* the last call was with_<k> and it returned the builder
Enabled_(k) == last.op = "with" /\ last.kind = Some(k) /\ last.ret = None

\* the sampler of the tracer provider in the trace slot
TraceSampler == Unwrap(Unwrap(otlp["trace"]).sampler)

\* C17: with_trace clamps the sample rate into [0, 1] before it chooses the
\* sampler: a rate above 1 gives exactly the sampler of rate 1.0 and a rate
\* below 0 exactly that of rate 0.0, whatever respect_parent is
C17_RateIsClamped ==
    Enabled_("trace") =>
        LET settings == Unwrap(last.arg)
        IN  /\ settings.sample_rate > RateOne =>
                 TraceSampler = SamplerFor([settings EXCEPT !.sample_rate = RateOne])
            /\ settings.sample_rate < RateZero =>
                 TraceSampler = SamplerFor([settings EXCEPT !.sample_rate = RateZero])
            /\ TraceSampler.rate # None =>
                 Unwrap(TraceSampler.rate) \in RateZero..RateOne

\* C17 witness: with_trace at the rate 1.5 without respect_parent, which gives
\* the sampler of the rate 1.0
C17_Witness ==
    /\ Enabled_("trace")
    /\ Unwrap(last.arg).sample_rate = RateOne + MaxRateExcess
    /\ ~Unwrap(last.arg).respect_parent
    /\ TraceSampler = AlwaysOnSampler

\* C18: without respect_parent a clamped rate of 0 selects a sampler that
\* drops every span, a clamped rate of 1 one that records and samples every
\* span, whatever the parent context, and any other rate the plain ratio
\* sampler; with respect_parent every rate, 0 and 1 included, selects the
\* parent-based sampler around the ratio sampler
C18_SamplerSelection ==
    /\ Enabled_("trace") =>
         LET settings == Unwrap(last.arg)
             rate == IF settings.sample_rate < RateZero THEN RateZero
                     ELSE IF settings.sample_rate > RateOne THEN RateOne
                     ELSE settings.sample_rate
         IN  IF settings.respect_parent
             THEN TraceSampler =
                    [name |-> "TraceIdRatioBased", rate |-> Some(rate), parent_based |-> TRUE]
             ELSE /\ rate = RateZero => TraceSampler.name = "AlwaysOffSampler"
                  /\ rate = RateOne => TraceSampler.name = "AlwaysOnSampler"
                  /\ rate \notin {RateZero, RateOne} =>
                       TraceSampler =
                         [name |-> "TraceIdRatioBased", rate |-> Some(rate), parent_based |-> FALSE]
    /\ last.op = "should_sample" =>
         /\ TraceSampler.name = "AlwaysOffSampler" =>
              ~TraceSampler.parent_based /\ Unwrap(last.ret).decision = "Drop"
         /\ TraceSampler.name = "AlwaysOnSampler" =>
              ~TraceSampler.parent_based /\ Unwrap(last.ret).decision = "RecordAndSample"

\* C18 witness: a span with a sampled parent starts under the sampler of rate
\* 0 without respect_parent and is dropped
C18_Witness ==
    /\ last.op = "should_sample"
    /\ TraceSampler = AlwaysOffSampler
    /\ last.arg # None
    /\ Unwrap(last.arg) # None
    /\ Unwrap(Unwrap(last.arg)).sampled
    /\ Unwrap(last.ret).decision = "Drop"

\* the exporter of the provider in slot k
ExporterOf(k) == Unwrap(otlp[k]).exporter

\* C19 as stated: over HTTP the endpoint of a kind is the destination URL
\* with one trailing slash removed, if it has one, followed by /logs, /traces
\* or /metrics; over gRPC it is the URL itself
C19_OneSlashStripped ==
    \A k \in Populated(otlp) :
        LET url == destination.url
            stripped == IF url[Len(url)] = "/" THEN SubSeq(url, 1, Len(url) - 1) ELSE url
        IN  /\ ExporterOf(k).transport = "http" =>
                 ExporterOf(k).endpoint = stripped \o Suffix(k)
            /\ ExporterOf(k).transport = "grpc" => ExporterOf(k).endpoint = url

\* C19 amended: over HTTP the endpoint of a kind is the destination URL with
\* every trailing slash removed, followed by /logs, /traces or /metrics; over
\* gRPC it is the URL itself
C19_EverySlashStripped ==
    \A k \in Populated(otlp) :
        LET url == destination.url
            e == ExporterOf(k).endpoint
        IN  /\ ExporterOf(k).transport = "http" =>
                 \E n \in 0..Len(url) :
                    /\ \A i \in (Len(url) - n + 1)..Len(url) : url[i] = "/"
                    /\ n < Len(url) => url[Len(url) - n] # "/"
                    /\ e = SubSeq(url, 1, Len(url) - n) \o Suffix(k)
            /\ ExporterOf(k).transport = "grpc" => e = url

\* C19 witness: logs over HTTP to a URL that ends with two slashes
C19_Witness ==
    /\ destination.protocol = "HttpBinary"
    /\ destination.url = <<"http://host:1234", "/", "otlp", "/", "/">>
    /\ otlp["logs"] # None
    /\ ExporterOf("logs").endpoint = <<"http://host:1234", "/", "otlp", "/", "logs">>

\* what every call leaves alone or changes in the builder: a new Builder has
\* timeout 5 s, compression on and no headers; with_header appends its pair,
\* with_timeout and with_compression set their field, and none of the three
\* touches another field or a provider; with_<k> fills slot k only
C20_Frame ==
    /\ last.op = "new" =>
         builder = [headers |-> <<>>, timeout |-> 5, compression |-> TRUE]
    /\ last.op = "with_header" =>
         /\ builder = [last.config EXCEPT !.headers = last.config.headers \o <<Unwrap(last.arg)>>]
         /\ otlp = last.before
    /\ last.op = "with_timeout" =>
         /\ builder = [last.config EXCEPT !.timeout = Unwrap(last.arg)]
         /\ otlp = last.before
    /\ last.op = "with_compression" =>
         /\ builder = [last.config EXCEPT !.compression = Unwrap(last.arg)]
         /\ otlp = last.before
    /\ \A k \in Kinds :
         Enabled_(k) =>
            /\ builder = last.config
            /\ last.before[k] = None
            /\ otlp[k] # None
            /\ \A j \in Kinds \ {k} : otlp[j] = last.before[j]

\* the header pairs exporter e carries, with how often
CarriesHeaders(e, headers) ==
    IF e.transport = "grpc" THEN e.metadata = headers
    ELSE /\ e.metadata = <<>>
         /\ e.headers = {headers[i] : i \in 1..Len(headers)}
         /\ Cardinality(e.headers) = Len(headers)

\* C20 as stated: a new Builder has timeout 5 s, compression on and no
\* headers; the three configuration calls change the shared configuration
\* only, never a provider already enabled; and the exporter of a kind is built
\* with exactly the headers, the timeout and the compression flag in force
\* when the kind is enabled
C20_ExporterCarriesConfig ==
    /\ C20_Frame
    /\ \A k \in Kinds :
         Enabled_(k) =>
            /\ CarriesHeaders(ExporterOf(k), last.config.headers)
            /\ ExporterOf(k).timeout = Some(last.config.timeout)
            /\ ExporterOf(k).gzip = last.config.compression

\* the headers an HTTP exporter carries: for every key added, the value of
\* the last pair added with that key
LastPerKey(headers) ==
    {h \in {headers[i] : i \in 1..Len(headers)} :
        \E i \in 1..Len(headers) :
            /\ headers[i] = h
            /\ \A j \in 1..Len(headers) : (j > i => headers[j][1] # h[1])}

\* C20 amended: a new Builder has timeout 5 s, compression on and no headers;
\* the three configuration calls change the shared configuration only, never
\* a provider already enabled; an OTLP exporter is built with the timeout in
\* force when its kind is enabled, with gzip exactly when the flag in force
\* is on and the compression feature of its transport is compiled in, and
\* with the headers in force: all pairs in order over gRPC, one pair per key
\* (the last added) over HTTP; the agent exporter of trace takes the URL only
C20_ExporterCarriesCompiledConfig ==
    /\ C20_Frame
    /\ \A k \in Kinds :
         Enabled_(k) =>
            LET e == ExporterOf(k)
                c == last.config
            IN  /\ e.transport = "grpc" =>
                     /\ e.metadata = c.headers /\ e.headers = {}
                     /\ e.timeout = Some(c.timeout)
                     /\ e.gzip = (c.compression /\ features.grpc_compression)
                /\ e.transport = "http" =>
                     /\ e.headers = LastPerKey(c.headers) /\ e.metadata = <<>>
                     /\ e.timeout = Some(c.timeout)
                     /\ e.gzip = (c.compression /\ features.http_compression)
                /\ e.transport = "datadog" =>
                     /\ k = "trace"
                     /\ e.headers = {} /\ e.metadata = <<>>
                     /\ e.timeout = None
                     /\ ~e.gzip
                     /\ e.endpoint = destination.url

\* C20 witness: logs enabled under the default timeout, then with_timeout,
\* then trace enabled: the two exporters carry different timeouts
C20_Witness ==
    /\ Enabled_("trace")
    /\ otlp["logs"] # None
    /\ ExporterOf("logs").timeout = Some(DefaultTimeout)
    /\ ExporterOf("trace").timeout = Some(MaxTimeout)
    /\ ExporterOf("trace").transport = "http"

(* -------------------- transports compiled in or not ------------------- *)

\* every choice of the transport features and of the metrics feature, the
\* compression features being on
TransportFeatureSets ==
    [grpc : BOOLEAN, http : BOOLEAN, datadog : BOOLEAN, metrics : BOOLEAN,
     grpc_compression : {TRUE}, http_compression : {TRUE}]

\* builders for every protocol under every choice of compiled-in transports
InitTransports ==
    InitExport(TransportFeatureSets,
               [protocol : Protocols, url : {<<"http://host:1234", "/">>}])

NextTransports ==
    \/ ExportLogs
    \/ ExportTrace
    \/ ExportMetrics
    \/ ExportFinish

SpecTransports == InitTransports /\ [][NextTransports]_vars

\* C30: Protocol::into_otel is never called with Protocol::DatadogAgent: no
\* with_* call ends in its unreachable!() branch, and an exporter built by the
\* `http =>` arm is one for HttpBinary or HttpJson and carries the
\* opentelemetry_otlp protocol of that name
C30_IntoOtelNeverSeesAgent ==
    /\ last.op = "with" => last.ret # Some("unreachable")
    /\ \A k \in Populated(otlp) :
          ExporterOf(k).transport = "http" =>
             /\ destination.protocol \in {"HttpBinary", "HttpJson"}
             /\ ExporterOf(k).protocol \in
                   {Some("opentelemetry_otlp::Protocol::HttpBinary"),
                    Some("opentelemetry_otlp::Protocol::HttpJson")}

\* C30 witness: with_logs for the agent protocol where the datadog feature is
\* off and the http feature on: the call ends in missing_datadog_feature, not
\* in the `http =>` arm
C30_Witness ==
    /\ last.op = "with"
    /\ last.kind = Some("logs")
    /\ destination.protocol = "DatadogAgent"
    /\ ~features.datadog
    /\ features.http
    /\ last.ret = Some("missing_datadog_feature")

(* ------------------------- TraceSettings, limits ----------------------- *)

\* the record kept of a call on the TraceSettings s
SettingsCall(op, arg, s) ==
    [op |-> op, kind |-> None, arg |-> Some(arg), config |-> builder, before |-> s, ret |-> None]

\* the settings are still the caller's: with_trace has not taken them
SettingsOwned == pc = "building" /\ otlp["trace"] = None

\* TraceSettings::with_max_events_per_span and its four siblings
WithMax(name) ==
    /\ SettingsOwned
    /\ \E value \in LimitValues :
         /\ traceSettings' = set_trace_limit(traceSettings, name, value)
         /\ last' = SettingsCall(name, value, traceSettings)
    /\ UNCHANGED <<features, destination, builder, otlp, prov, pc, enabled, atFinish,
                   nShutdown, nConfig>>
    /\ UNCHANGED layerVars
    /\ UNCHANGED <<subscriber, exporter, file, panicHook, threads>>

WithMaxEventsPerSpan == WithMax("with_max_events_per_span")

WithMaxAttributesPerSpan == WithMax("with_max_attributes_per_span")

WithMaxLinksPerSpan == WithMax("with_max_links_per_span")

WithMaxAttributesPerEvent == WithMax("with_max_attributes_per_event")

WithMaxAttributesPerLink == WithMax("with_max_attributes_per_link")

\* TraceSettings::with_respect_parent_sampling
WithRespectParentSampling ==
    /\ SettingsOwned
    /\ \E value \in BOOLEAN :
         /\ traceSettings' = with_respect_parent_sampling(traceSettings, value)
         /\ last' = SettingsCall("with_respect_parent_sampling", value, traceSettings)
    /\ UNCHANGED <<features, destination, builder, otlp, prov, pc, enabled, atFinish,
                   nShutdown, nConfig>>
    /\ UNCHANGED layerVars
    /\ UNCHANGED <<subscriber, exporter, file, panicHook, threads>>

\* Builder::with_trace with the settings the caller has put together
ExportTraceSettings == Export("trace", {traceSettings})

\* TraceSettings::new(0.5) in the hands of the caller of a new Builder
InitLimits ==
    /\ features \in {f \in ExportFeatureSets : f.grpc_compression /\ f.http_compression}
    /\ destination \in [protocol : Protocols, url : {<<"http://host:1234", "/">>}]
    /\ builder = BuilderNew
    /\ otlp = OtlpNew
    /\ prov = ProvNew
    /\ pc = "building"
    /\ enabled = {}
    /\ atFinish = {}
    /\ nShutdown = 0
    /\ nConfig = 0
    /\ last = ExportCall("new", None, None, None)
    /\ layer = LayerNone
    /\ lcall = NoLayerCall
    /\ traceSettings = TraceSettingsNew(5)
    /\ subscriber = None
    /\ exporter = None
    /\ file = <<>>
    /\ panicHook = None
    /\ threads = <<>>

NextLimits ==
    \/ WithMaxEventsPerSpan
    \/ WithMaxAttributesPerSpan
    \/ WithMaxLinksPerSpan
    \/ WithMaxAttributesPerEvent
    \/ WithMaxAttributesPerLink
    \/ WithRespectParentSampling
    \/ ExportTraceSettings
    \/ ExportFinish

SpecLimits == InitLimits /\ [][NextLimits]_vars

\* C26: with_trace passes a span limit on to the tracer provider exactly when
\* its configured value is not the default 128, and then with that value;
\* each with_max_* setter changes its own limit only and leaves the other
\* four, the sample rate and respect_parent as they were
C26_LimitsAppliedWhereNotDefault ==
    /\ Enabled_("trace") =>
         \A n \in LimitNames :
            LET configured == Unwrap(last.arg).limits[n]
                applied == Unwrap(Unwrap(otlp["trace"]).limits)[n]
            IN  /\ applied # None <=> configured # 128
                /\ applied # None => applied = Some(configured)
    /\ last.op \in LimitNames =>
         /\ traceSettings.limits[last.op] = Unwrap(last.arg)
         /\ \A n \in LimitNames \ {last.op} : traceSettings.limits[n] = last.before.limits[n]
         /\ traceSettings.sample_rate = last.before.sample_rate
         /\ traceSettings.respect_parent = last.before.respect_parent

\* C26 witness: with_trace with max links per span set to 0 and max events
\* per span at the default
C26_Witness ==
    /\ Enabled_("trace")
    /\ Unwrap(last.arg).limits["with_max_links_per_span"] = 0
    /\ Unwrap(Unwrap(otlp["trace"]).limits)["with_max_links_per_span"] = Some(0)
    /\ Unwrap(Unwrap(otlp["trace"]).limits)["with_max_events_per_span"] = None

(* --------------------- Otlp::init_tracing_subscriber ------------------- *)

\* registry.with(layer): the layers of the subscriber, in the order attached
RegistryWith(registry, l) == Append(registry, l)

\* init_metrics!(registry) under either value of tracing-metrics
init_metrics(registry, o, feats) ==
    IF feats.tracing_metrics /\ o["metrics"] # None
    THEN RegistryWith(registry, "metrics")
    ELSE registry

\* init_tracing_subscriber without its `else if let Some(logs)` branch
init_tracing_subscriberLogsUnderTrace(o, feats) ==
    IF o["trace"] # None
    THEN LET registry == RegistryWith(<<>>, "trace")
         IN  IF o["logs"] # None
             THEN init_metrics(RegistryWith(registry, "logs"), o, feats)
             ELSE init_metrics(registry, o, feats)
    ELSE init_metrics(<<>>, o, feats)

\* Otlp::init_tracing_subscriber: the subscriber handed to init()
init_tracing_subscriber(o, feats) ==
    IF o["trace"] # None
    THEN LET registry == RegistryWith(<<>>, "trace")
         IN  IF o["logs"] # None
             THEN init_metrics(RegistryWith(registry, "logs"), o, feats)
             ELSE init_metrics(registry, o, feats)
    ELSE IF o["logs"] # None
    THEN init_metrics(RegistryWith(<<>>, "logs"), o, feats)
    ELSE init_metrics(<<>>, o, feats)

\* Otlp::init_tracing_subscriber on the handle.  init() panics when a global
\* default subscriber is set already; the panic unwinds through the owner of
\* the handle, which drops it
InitTracingSubscriber ==
    /\ pc = "finished"
    /\ IF subscriber = None
       THEN /\ subscriber' = Some(init_tracing_subscriber(otlp, features))
            /\ last' = Call("init_tracing_subscriber", None, Populated(otlp), ShutKinds(prov), 0,
                            NoShutdown, "unit", None)
            /\ UNCHANGED <<otlp, prov, pc>>
       ELSE \E beh \in Behaviours(Populated(otlp)) :
              LET d == drop(otlp, prov, beh, features)
              IN  /\ otlp' = d.otlp
                  /\ prov' = d.prov
                  /\ pc' = "panicked"
                  /\ last' = Call("init_tracing_subscriber", None, Populated(otlp),
                                  ShutKinds(prov), 0, d, "panic",
                                  Some("failed to set global default subscriber"))
                  /\ UNCHANGED subscriber
    /\ UNCHANGED <<features, destination, builder, enabled, atFinish, nShutdown, nConfig>>
    /\ UNCHANGED layerVars
    /\ UNCHANGED <<traceSettings, exporter, file, panicHook, threads>>

\* the features with tracing-metrics told apart from metrics; "metrics" stands
\* for any(feature = "metrics", feature = "tracing-metrics")
SubscriberFeatureSets ==
    {f \in [grpc : {TRUE}, http : {TRUE}, datadog : {TRUE}, metrics : BOOLEAN,
            tracing_metrics : BOOLEAN] : f.tracing_metrics => f.metrics}

InitSubscriber ==
    /\ features \in SubscriberFeatureSets
    /\ destination \in [protocol : {"Grpc", "HttpBinary"}]
    /\ builder = BuilderNew
    /\ otlp = OtlpNew
    /\ prov = ProvNew
    /\ pc = "building"
    /\ enabled = {}
    /\ atFinish = {}
    /\ nShutdown = 0
    /\ last = Call("new", None, {}, {}, 0, NoShutdown, "Builder", None)
    /\ layer = LayerNone
    /\ lcall = NoLayerCall
    /\ nConfig = 0
    /\ NoExtra

NextSubscriber ==
    \/ WithLogs
    \/ WithTrace
    \/ WithMetrics
    \/ Finish
    \/ Shutdown
    \/ InitTracingSubscriber

SpecSubscriber == InitSubscriber /\ [][NextSubscriber]_vars

\* C27: a call of init_tracing_subscriber that returns has installed as the
\* global subscriber the registry with a trace layer exactly if the handle's
\* trace provider is populated, a logs bridge exactly if its logs provider is
\* and, under tracing-metrics, a metrics layer exactly if its metrics provider
\* is, each at most once; on a handle whose providers a shutdown released it
\* attaches no layer; and it panics only if a global subscriber was there
C27_LayersFollowProviders ==
    last.op = "init_tracing_subscriber" =>
        /\ subscriber # None
        /\ last.ret = "unit" =>
             LET layers == Unwrap(subscriber)
                 Attached(k) == \E i \in 1..Len(layers) : layers[i] = k
             IN  /\ Attached("trace") <=> "trace" \in last.pre
                 /\ Attached("logs") <=> "logs" \in last.pre
                 /\ Attached("metrics") <=> (features.tracing_metrics /\ "metrics" \in last.pre)
                 /\ \A i, j \in 1..Len(layers) : layers[i] = layers[j] => i = j
                 /\ last.pre = {} => layers = <<>>

\* C27 witness: the handle holds a logs and a metrics provider and no trace
\* provider, tracing-metrics is on, and the subscriber installed has the logs
\* bridge and the metrics layer
C27_Witness ==
    /\ last.op = "init_tracing_subscriber"
    /\ last.ret = "unit"
    /\ last.pre = {"logs", "metrics"}
    /\ features.tracing_metrics
    /\ subscriber = Some(<<"logs", "metrics">>)

(* ------------------------ panic.rs, the panic hook --------------------- *)

\* threads that call install_panic_hook
MaxThreads == 2

\* most calls of install_panic_hook by one thread
MaxInstalls == 2

Tids == 1..MaxThreads

\* the hook a process has before install_panic_hook: the hooks a panic runs,
\* in order
PreviousHook == <<"previous">>

\* what std::panic::take_hook leaves in place: the default hook
DefaultHook == <<"default">>

\* a get_or_init that runs its closure on every call
get_or_initEveryCall(once) == "run"

\* OnceLock::get_or_init: run the closure, wait for the thread that is running
\* it, or return the value it left
get_or_init(once) ==
    CASE once = "complete" -> "return"
      [] once = "running" -> "wait"
      [] OTHER -> "run"

\* Box::new(move |info| { panic_hook(info); next(info); })
HookClosure(next) == <<"panic_hook">> \o next

\* a thread outside install_panic_hook
ThreadNew == [pc |-> "idle", next |-> <<>>, calls |-> 0]

\* the record kept of a step of thread t
HookCall(op, t, ran) ==
    [op |-> op, thread |-> t, ran |-> ran,
     returned |-> \E u \in Tids : threads[u].calls > 0 /\ threads[u].pc \in {"idle", "returned"}]

\* thread t calls install_panic_hook
CallInstall(t) ==
    /\ threads[t].pc \in {"idle", "returned"}
    /\ threads[t].calls < MaxInstalls
    /\ threads' = [threads EXCEPT ![t].pc = "get_or_init", ![t].calls = @ + 1]
    /\ last' = HookCall("install_panic_hook", t, <<>>)
    /\ UNCHANGED panicHook

\* ONCE.get_or_init(..) in thread t: blocked while another thread runs the
\* closure
GetOrInit(t) ==
    /\ threads[t].pc = "get_or_init"
    /\ get_or_init(panicHook.once) # "wait"
    /\ IF get_or_init(panicHook.once) = "run"
       THEN /\ panicHook' = [panicHook EXCEPT !.once = "running"]
            /\ threads' = [threads EXCEPT ![t].pc = "take_hook"]
       ELSE /\ threads' = [threads EXCEPT ![t].pc = "returned"]
            /\ UNCHANGED panicHook
    /\ last' = HookCall("get_or_init", t, <<>>)

\* let next = std::panic::take_hook()
TakeHook(t) ==
    /\ threads[t].pc = "take_hook"
    /\ threads' = [threads EXCEPT ![t].pc = "set_hook", ![t].next = panicHook.hook]
    /\ panicHook' = [panicHook EXCEPT !.hook = DefaultHook]
    /\ last' = HookCall("take_hook", t, <<>>)

\* std::panic::set_hook(Box::new(..)), the end of the closure and of the call
SetHook(t) ==
    /\ threads[t].pc = "set_hook"
    /\ panicHook' = [once |-> IF panicHook.once = "running" THEN "complete" ELSE panicHook.once,
                     hook |-> HookClosure(threads[t].next)]
    /\ threads' = [threads EXCEPT ![t].pc = "returned", ![t].next = <<>>]
    /\ last' = HookCall("set_hook", t, <<>>)

\* some thread panics: the process-wide hook runs
Panic ==
    /\ last' = HookCall("panic", 0, panicHook.hook)
    /\ UNCHANGED <<panicHook, threads>>

\* one step of the threads around the panic hook
HookStep(A) ==
    /\ A
    /\ UNCHANGED <<features, destination, builder, otlp, prov, pc, enabled, atFinish,
                   nShutdown, nConfig>>
    /\ UNCHANGED layerVars
    /\ UNCHANGED <<traceSettings, subscriber, exporter, file>>

InstallPanicHook == \E t \in Tids : HookStep(CallInstall(t))

OnceGetOrInit == \E t \in Tids : HookStep(GetOrInit(t))

StdTakeHook == \E t \in Tids : HookStep(TakeHook(t))

StdSetHook == \E t \in Tids : HookStep(SetHook(t))

APanic == HookStep(Panic)

\* a process whose hook is the one it had before, ONCE not yet initialised
InitHook ==
    /\ features \in LayerFeatureSets
    /\ destination = [protocol |-> "Grpc"]
    /\ builder = BuilderNew
    /\ otlp = OtlpNew
    /\ prov = ProvNew
    /\ pc = "building"
    /\ enabled = {}
    /\ atFinish = {}
    /\ nShutdown = 0
    /\ nConfig = 0
    /\ layer = LayerNone
    /\ lcall = NoLayerCall
    /\ traceSettings = None
    /\ subscriber = None
    /\ exporter = None
    /\ file = <<>>
    /\ panicHook = [once |-> "incomplete", hook |-> PreviousHook]
    /\ threads = [t \in Tids |-> ThreadNew]
    /\ last = [op |-> "start", thread |-> 0, ran |-> <<>>, returned |-> FALSE]

NextHook ==
    \/ InstallPanicHook
    \/ OnceGetOrInit
    \/ StdTakeHook
    \/ StdSetHook
    \/ APanic

SpecHook == InitHook /\ [][NextHook]_vars

\* how often hook h is in the chain c
TimesIn(c, h) == Cardinality({i \in 1..Len(c) : c[i] = h})

\* C25: once a call of install_panic_hook has returned, however many calls
\* were made and from whichever threads, a panic runs panic_hook exactly once
\* and then, exactly once, the hook the process had before the first call;
\* and panic_hook is never installed twice
C25_HookInstalledOnce ==
    /\ TimesIn(panicHook.hook, "panic_hook") <= 1
    /\ (last.op = "panic" /\ last.returned) => last.ran = <<"panic_hook", "previous">>

\* C25 witness: both threads have called install_panic_hook twice and are
\* back, and a panic has run the two hooks
C25_Witness ==
    /\ last.op = "panic"
    /\ \A t \in Tids : threads[t].calls = 2 /\ threads[t].pc = "returned"
    /\ last.ran = <<"panic_hook", "previous">>

(* ------------------- datadog.rs, the file / stdout sink ---------------- *)

\* the size of Buffer.inner, [u8; 1024]
BufferCapacity == 1024

\* most records in one batch
MaxBatch == 2

\* most export calls on one exporter
MaxExports == 2

\* A string is a sequence of runs: n characters of w bytes each, the run being
\* known by its text.  "data" is one run of four one-byte characters.
Str(text, w, n) == <<[text |-> text, w |-> w, n |-> n]>>

\* <[u8]>::len of str::as_bytes
RECURSIVE ByteLen(_)
ByteLen(s) ==
    IF s = <<>> THEN 0 ELSE Head(s).n * Head(s).w + ByteLen(Tail(s))

\* Buffer::new
BufferNew == [inner |-> <<>>, len |-> 0]

\* Buffer::clear
BufferClear(buffer) == [inner |-> <<>>, len |-> 0]

\* Buffer::push_bytes: output[..written].copy_from_slice(buf) panics when buf
\* is longer than what is left of inner, the two slices differing in length
push_bytes(buffer, buf) ==
    LET output == BufferCapacity - buffer.len
        written == Min(output, ByteLen(buf))
    IN  IF written # ByteLen(buf)
        THEN [panic |-> TRUE, buffer |-> buffer]
        ELSE [panic |-> FALSE,
              buffer |-> [inner |-> buffer.inner \o buf, len |-> buffer.len + written]]

\* Buffer::as_str: core::str::from_utf8(&self.inner[..self.len]).ok(); inner
\* holds whole strs only, push_bytes copying all of one or nothing
as_str(buffer) == Some(buffer.inner)

\* Buffer::as_str_with, given the buffer as the callback left it and what the
\* callback returned
as_str_with(buffer, cb) == IF cb THEN as_str(buffer) ELSE None

\* SystemTime -> time::UtcDateTime -> Rfc3339: the civil date and time of t
\* seconds after 1970-01-01T00:00:00Z, with the offset Z
Rfc3339(t) ==
    LET days == t \div 86400
        secs == t % 86400
        z == days + 719468
        era == z \div 146097
        doe == z - era * 146097
        yoe == (doe - doe \div 1460 + doe \div 36524 - doe \div 146096) \div 365
        doy == doe - (365 * yoe + yoe \div 4 - yoe \div 100)
        mp == (5 * doy + 2) \div 153
        month == IF mp < 10 THEN mp + 3 ELSE mp - 9
    IN  [year |-> yoe + era * 400 + (IF month <= 2 THEN 1 ELSE 0), month |-> month,
         day |-> doy - (153 * mp + 2) \div 5 + 1,
         hour |-> secs \div 3600, minute |-> (secs % 3600) \div 60, second |-> secs % 60,
         offset |-> "Z"]

\* the bytes of an Rfc3339 timestamp without a fraction: 2026-11-06T09:30:05Z
Rfc3339Bytes == 20

\* opentelemetry::logs::AnyValue; Other stands for the variants the
\* non-exhaustive enum may still get
AnyBoolean(v) == [tag |-> "Boolean", v |-> v]

AnyInt(v) == [tag |-> "Int", v |-> v]

AnyString(v) == [tag |-> "String", v |-> v]

AnyBytes(v) == [tag |-> "Bytes", v |-> v]

AnyListAny(v) == [tag |-> "ListAny", v |-> v]

AnyMap(v) == [tag |-> "Map", v |-> v]

AnyOther == [tag |-> "Other", v |-> 0]

\* what serde_json writes for a value
Json(kind, v) == [json |-> kind, v |-> v]

\* impl Serialize for AnyValueSerde: Some(json written) or None for the error
\* of unexpected_value
RECURSIVE AnyValueSerde(_)
AnyValueSerde(value) ==
    CASE value.tag = "Boolean" -> Some(Json("bool", value.v))
      [] value.tag \in {"Int", "Double"} -> Some(Json("number", value.v))
      [] value.tag = "String" -> Some(Json("string", value.v))
      [] value.tag = "Bytes" ->
            Some(Json("array", [i \in 1..Len(value.v) |-> Json("number", value.v[i])]))
      [] value.tag = "ListAny" ->
            LET elements == [i \in 1..Len(value.v) |-> AnyValueSerde(value.v[i])]
            IN  IF \E i \in 1..Len(elements) : elements[i] = None THEN None
                ELSE Some(Json("array", [i \in 1..Len(elements) |-> Unwrap(elements[i])]))
      [] value.tag = "Map" ->
            LET entries == [i \in 1..Len(value.v) |-> AnyValueSerde(value.v[i][2])]
            IN  IF \E i \in 1..Len(entries) : entries[i] = None THEN None
                ELSE Some(Json("object",
                        [i \in 1..Len(entries) |-> <<value.v[i][1], Unwrap(entries[i])>>]))
      [] OTHER -> None

\* the greater of two lengths
Max2(a, b) == IF a >= b THEN a ELSE b

\* the text of the object being written, whether an error stopped it, whether
\* a panic did, and the greatest length the scratch Buffer had
Written(entries) == [entries |-> entries, failed |-> FALSE, panicked |-> FALSE, len |-> 0]

\* map.serialize_entry(key, &AnyValueSerde(value)).unwrap(): the error of an
\* unsupported value is a panic
SerializeEntryUnwrap(out, key, value) ==
    IF out.failed \/ out.panicked THEN out
    ELSE IF AnyValueSerde(value) = None THEN [out EXCEPT !.panicked = TRUE]
    ELSE [out EXCEPT !.entries = Append(@, <<key, Unwrap(AnyValueSerde(value))>>)]

\* map.serialize_entry(key, &AnyValueSerde(value))?
SerializeEntry(out, key, value) ==
    IF out.failed \/ out.panicked THEN out
    ELSE IF AnyValueSerde(value) = None THEN [out EXCEPT !.failed = TRUE]
    ELSE [out EXCEPT !.entries = Append(@, <<key, Unwrap(AnyValueSerde(value))>>)]

\* the `for (key, value) in self.0.attributes_iter()` loop from attribute i on
RECURSIVE SerializeAttributes(_, _, _)
SerializeAttributes(out, attributes, i) ==
    IF out.failed \/ out.panicked \/ i > Len(attributes) THEN out
    ELSE LET prefix == push_bytes(BufferNew, Str("fields.", 1, 7))
             pushed == push_bytes(prefix.buffer, attributes[i][1])
             key == as_str_with(pushed.buffer, TRUE)
             seen == [out EXCEPT !.len = Max2(@, pushed.buffer.len)]
         IN  IF prefix.panic \/ pushed.panic THEN [seen EXCEPT !.panicked = TRUE]
             ELSE SerializeAttributes(
                      IF key # None
                      THEN SerializeEntry(seen, Unwrap(key), attributes[i][2])
                      ELSE seen,
                      attributes, i + 1)

\* map.serialize_entry(key, value)? for a value serde_json writes as it is
PutEntry(out, key, json) ==
    IF out.failed \/ out.panicked THEN out
    ELSE [out EXCEPT !.entries = Append(@, <<key, json>>)]

\* the timestamp block: format_into writes the text through io::Write for
\* Buffer, and the entry is written when the formatting succeeded
SerializeTimestamp(out, record) ==
    LET timestamp == IF record.timestamp # None THEN record.timestamp
                     ELSE record.observed_timestamp
        formatted == push_bytes(BufferNew, Str("rfc3339", 1, Rfc3339Bytes))
        text == as_str_with(formatted.buffer, TRUE)
        seen == [out EXCEPT !.len = Max2(@, formatted.buffer.len)]
    IN  IF timestamp = None \/ out.failed \/ out.panicked THEN out
        ELSE IF formatted.panic THEN [seen EXCEPT !.panicked = TRUE]
        ELSE IF text # None
        THEN PutEntry(seen, Str("timestamp", 1, 9), Json("string", Rfc3339(Unwrap(timestamp))))
        ELSE seen

\* the trace context block
SerializeContext(out, record) ==
    IF record.trace_context = None THEN out
    ELSE PutEntry(PutEntry(out, Str("dd.trace_id", 1, 11),
                           Json("number", Unwrap(record.trace_context).trace_id)),
                  Str("dd.span_id", 1, 10),
                  Json("number", Unwrap(record.trace_context).span_id))

\* impl Serialize for LogRecord
LogRecordSerialize(record) ==
    LET map == Written(<<>>)
        message == IF record.body # None
                   THEN SerializeEntry(map, Str("message", 1, 7), Unwrap(record.body))
                   ELSE map
        timestamp == SerializeTimestamp(message, record)
        level == IF record.severity_text # None
                 THEN PutEntry(timestamp, Str("level", 1, 5),
                               Json("string", Unwrap(record.severity_text)))
                 ELSE timestamp
        context == SerializeContext(level, record)
    IN  SerializeAttributes(context, record.attributes, 1)

\* an SdkLogRecord as the serializer reads it
SdkLogRecord(body, timestamp, observed_timestamp, severity_text, trace_context, attributes) ==
    [body |-> body, timestamp |-> timestamp, observed_timestamp |-> observed_timestamp,
     severity_text |-> severity_text, trace_context |-> trace_context,
     attributes |-> attributes]

\* the records exported: the event of tests.rs; a record with both timestamps,
\* a trace context and a name that just fits the Buffer; one with a name one
\* byte too long, in two-byte characters; one with an attribute of an
\* unsupported shape; one whose body holds such a value and that has no
\* timestamp at all
SinkRecords ==
    << SdkLogRecord(Some(AnyString("my message")), None, Some(1793957405), Some("INFO"),
                    None, << <<Str("data", 1, 4), AnyInt(1)>> >>),
       SdkLogRecord(None, Some(1709251199), Some(1793957405), None,
                    Some([trace_id |-> 1, span_id |-> 2]),
                    << <<Str("x", 1, BufferCapacity - 7),
                         AnyListAny(<<AnyInt(1), AnyBoolean(TRUE)>>)>> >>),
       SdkLogRecord(Some(AnyString("my message")), None, Some(1793957405), Some("INFO"),
                    None, << <<Str("data", 1, 4), AnyInt(1)>>,
                             <<Str("e", 2, (BufferCapacity - 6) \div 2), AnyInt(1)>> >>),
       SdkLogRecord(Some(AnyString("my message")), None, Some(1793957405), Some("WARN"),
                    None, << <<Str("data", 1, 4), AnyInt(1)>>,
                             <<Str("k", 1, 1), AnyOther>>,
                             <<Str("after", 1, 5), AnyInt(1)>> >>),
       SdkLogRecord(Some(AnyListAny(<<AnyInt(1), AnyOther>>)), None, None, None,
                    None, << <<Str("data", 1, 4), AnyBytes(<<1, 2>>)>> >>) >>

\* batches by the positions of their records in SinkRecords
BatchesOf(S) == UNION {[1..n -> S] : n \in 0..MaxBatch}

\* every batch, the batches of the event of tests.rs alone, and of these the
\* ones that threads export side by side: none, one or two events
AllBatches == BatchesOf(1..Len(SinkRecords))

PlainBatches == BatchesOf({1})

RaceBatches == {<<>>, <<1>>, <<1, 1>>}

\* IoLogExporter { create_dest, is_shutdown: AtomicBool::new(false) }, as
\* file_exporter and stdout_exporter build it
IoLogExporterNew == [is_shutdown |-> FALSE]

\* self.is_shutdown.store(true, Ordering::Release) of every call, the first
\* and the later ones alike; the mutant flips the flag instead
shutdown_with_timeoutToggle(e) == [e EXCEPT !.is_shutdown = ~@]

\* shutdown_with_timeout: self.is_shutdown.store(true, Ordering::Release)
shutdown_with_timeout(e) == [e EXCEPT !.is_shutdown = TRUE]

\* the value has a shape the encoder writes: a boolean, a number, a string,
\* bytes, or a list or map of such values
RECURSIVE SupportedValue(_)
SupportedValue(value) ==
    CASE value.tag \in {"Boolean", "Int", "Double", "String", "Bytes"} -> TRUE
      [] value.tag = "ListAny" -> \A i \in 1..Len(value.v) : SupportedValue(value.v[i])
      [] value.tag = "Map" -> \A i \in 1..Len(value.v) : SupportedValue(value.v[i][2])
      [] OTHER -> FALSE

\* every value of the record has a supported shape
SupportedRecord(record) ==
    /\ record.body # None => SupportedValue(Unwrap(record.body))
    /\ \A i \in 1..Len(record.attributes) : SupportedValue(record.attributes[i][2])

\* a shutdown_with_timeout call has stored the flag
Stored == nShutdown > 0 \/ \E t \in DOMAIN threads : threads[t].pc = "stored"

\* a thread that calls the exporter: where it is in its call, the call's
\* batch and the record it is at, what the call returned, whether the call
\* began after a shutdown_with_timeout had returned, whether it read the flag
\* after a shutdown_with_timeout had stored it, whether it opened the
\* destination, whether it wrote a record, whether every value of its batch
\* has a supported shape, and whether a call of the thread has failed
SinkThreadNew ==
    [pc |-> "idle", op |-> "none", batch |-> <<>>, i |-> 0, ret |-> "none",
     after |-> FALSE, late |-> FALSE, opened |-> FALSE, wrote |-> FALSE, valid |-> TRUE,
     failed |-> FALSE]

\* the record kept of a step of thread t on the sink
SinkCall(op, t, record, out) ==
    [op |-> op, t |-> t, record |-> record, out |-> out, after |-> nShutdown > 0]

\* what one serde_json::to_writer call leaves in the destination: the object,
\* closed when the record was written whole
Token(out) ==
    [kind |-> "object", entries |-> out.entries, closed |-> ~out.failed /\ ~out.panicked]

\* file_exporter(path) / stdout_exporter()
FileExporter ==
    /\ exporter = None
    /\ exporter' = Some(IoLogExporterNew)
    /\ last' = SinkCall("new", 0, None, None)
    /\ UNCHANGED <<features, destination, builder, otlp, prov, pc, enabled, atFinish,
                   nShutdown, nConfig>>
    /\ UNCHANGED layerVars
    /\ UNCHANGED <<traceSettings, subscriber, file, panicHook, threads>>

\* a step of thread t on the sink that leaves the builder and the file alone
SinkStep(t, th, e, l) ==
    /\ threads' = [threads EXCEPT ![t] = th]
    /\ exporter' = e
    /\ last' = l
    /\ UNCHANGED <<features, destination, builder, otlp, prov, pc, enabled, atFinish>>
    /\ UNCHANGED layerVars
    /\ UNCHANGED <<traceSettings, subscriber, panicHook>>

\* the caller hands a batch to LogExporter::export
ExportBegin(B) ==
    \E t \in DOMAIN threads, b \in B :
        /\ exporter # None
        /\ threads[t].pc = "idle"
        /\ nConfig < MaxExports
        /\ SinkStep(t, [threads[t] EXCEPT !.pc = "load", !.op = "export",
                           !.batch = [i \in 1..Len(b) |-> SinkRecords[b[i]]], !.i = 1,
                           !.ret = "none", !.after = nShutdown > 0, !.late = FALSE,
                           !.opened = FALSE, !.wrote = FALSE,
                           !.valid = \A i \in 1..Len(b) : SupportedRecord(SinkRecords[b[i]])],
                    exporter, SinkCall("export", t, None, None))
        /\ nConfig' = nConfig + 1
        /\ UNCHANGED <<file, nShutdown>>

\* the end of an export call with a result
Return(th, ret) ==
    [th EXCEPT !.pc = "idle", !.ret = ret, !.batch = <<>>, !.i = 0,
               !.failed = @ \/ ret = "InternalFailure"]

\* export: if self.is_shutdown.load(Ordering::Acquire) { return Err(AlreadyShutdown) }
ExportLoad ==
    \E t \in DOMAIN threads :
        /\ threads[t].pc = "load"
        /\ SinkStep(t, IF Unwrap(exporter).is_shutdown
                       THEN Return([threads[t] EXCEPT !.late = Stored], "AlreadyShutdown")
                       ELSE [threads[t] EXCEPT !.pc = "create_dest", !.late = Stored],
                    exporter, SinkCall("load", t, None, None))
        /\ UNCHANGED <<file, nShutdown, nConfig>>

\* export: let mut out = match (self.create_dest)() { Ok(out) => out, Err(..) => return Err(InternalFailure) }
ExportCreateDest ==
    \E t \in DOMAIN threads, ok \in BOOLEAN :
        /\ threads[t].pc = "create_dest"
        /\ SinkStep(t, IF ~ok THEN Return(threads[t], "InternalFailure")
                       ELSE IF Len(threads[t].batch) = 0
                       THEN Return([threads[t] EXCEPT !.opened = TRUE], "Ok")
                       ELSE [threads[t] EXCEPT !.pc = "write", !.opened = TRUE],
                    exporter, SinkCall(IF ok THEN "create_dest" ELSE "create_dest failed",
                                       t, None, None))
        /\ UNCHANGED <<file, nShutdown, nConfig>>

\* export: one turn of `for (record, _) in batch.iter()`, and Ok(()) after the
\* last one; a panic unwinds into the caller
ExportWrite ==
    \E t \in DOMAIN threads :
        LET th == threads[t]
            record == th.batch[th.i]
            out == LogRecordSerialize(record)
            wrote == [th EXCEPT !.wrote = TRUE]
        IN  /\ th.pc = "write"
            /\ file' = Append(file, Token(out))
            /\ SinkStep(t, IF out.panicked
                           THEN [wrote EXCEPT !.pc = "panicked", !.ret = "panic",
                                              !.batch = <<>>, !.i = 0]
                           ELSE IF out.failed THEN Return(wrote, "InternalFailure")
                           ELSE IF th.i = Len(th.batch) THEN Return(wrote, "Ok")
                           ELSE [wrote EXCEPT !.i = @ + 1],
                        exporter, SinkCall("write", t, Some(record), Some(out)))
            /\ UNCHANGED <<nShutdown, nConfig>>

\* shutdown_with_timeout, the store
ShutdownStore ==
    \E t \in DOMAIN threads :
        /\ exporter # None
        /\ threads[t].pc = "idle"
        /\ nShutdown + Cardinality({u \in DOMAIN threads : threads[u].pc = "stored"})
              < MaxShutdowns
        /\ SinkStep(t, [threads[t] EXCEPT !.pc = "stored", !.op = "shutdown", !.ret = "none",
                                         !.after = nShutdown > 0],
                    Some(shutdown_with_timeout(Unwrap(exporter))),
                    SinkCall("store", t, None, None))
        /\ UNCHANGED <<file, nShutdown, nConfig>>

\* shutdown_with_timeout, Ok(())
ShutdownReturn ==
    \E t \in DOMAIN threads :
        /\ threads[t].pc = "stored"
        /\ SinkStep(t, Return(threads[t], "Ok"), exporter, SinkCall("return", t, None, None))
        /\ nShutdown' = nShutdown + 1
        /\ UNCHANGED <<file, nConfig>>

ExportAny == ExportBegin(AllBatches)

ExportPlain == ExportBegin(PlainBatches)

ExportRace == ExportBegin(RaceBatches)

\* the sink driven by one thread that exports batches of every kind of record
\* and never shuts the exporter down
InitSink ==
    /\ features \in {f \in FeatureSets : f.http /\ f.grpc /\ f.datadog /\ ~f.metrics}
    /\ destination = [protocol |-> "DatadogAgent", url |-> <<"file://datadog_agent.log", "">>]
    /\ builder = BuilderNew
    /\ otlp = OtlpNew
    /\ prov = ProvNew
    /\ pc = "building"
    /\ enabled = {}
    /\ atFinish = {}
    /\ nShutdown = 0
    /\ nConfig = 0
    /\ layer = LayerNone
    /\ lcall = NoLayerCall
    /\ traceSettings = None
    /\ subscriber = None
    /\ exporter = None
    /\ file = <<>>
    /\ panicHook = None
    /\ threads = [t \in {1} |-> SinkThreadNew]
    /\ last = SinkCall("start", 0, None, None)

NextSink ==
    \/ FileExporter
    \/ ExportAny
    \/ ExportLoad
    \/ ExportCreateDest
    \/ ExportWrite

SpecSink == InitSink /\ [][NextSink]_vars

\* the sink shared by two threads of a process, the one that exports for the
\* log processor and the one that shuts the pipeline down, either of them
\* free to make both calls
InitRace ==
    /\ features \in {f \in FeatureSets : f.http /\ f.grpc /\ f.datadog}
    /\ destination = [protocol |-> "DatadogAgent", url |-> <<"file://datadog_agent.log", "">>]
    /\ builder = BuilderNew
    /\ otlp = OtlpNew
    /\ prov = ProvNew
    /\ pc = "building"
    /\ enabled = {}
    /\ atFinish = {}
    /\ nShutdown = 0
    /\ nConfig = 0
    /\ layer = LayerNone
    /\ lcall = NoLayerCall
    /\ traceSettings = None
    /\ subscriber = None
    /\ exporter = None
    /\ file = <<>>
    /\ panicHook = None
    /\ threads = [t \in {1, 2} |-> SinkThreadNew]
    /\ last = SinkCall("start", 0, None, None)

NextRace ==
    \/ FileExporter
    \/ ExportRace
    \/ ExportLoad
    \/ ExportCreateDest
    \/ ExportWrite
    \/ ShutdownStore
    \/ ShutdownReturn

SpecRace == InitRace /\ [][NextRace]_vars

\* the builder of tests.rs, compiled with the datadog feature or without it,
\* next to a sink that one thread drives with the event of tests.rs
InitAgent ==
    /\ features \in {f \in FeatureSets : f.http /\ f.grpc /\ ~f.metrics}
    /\ destination = [protocol |-> "DatadogAgent", url |-> <<"file://datadog_agent.log", "">>]
    /\ builder = BuilderNew
    /\ otlp = OtlpNew
    /\ prov = ProvNew
    /\ pc = "building"
    /\ enabled = {}
    /\ atFinish = {}
    /\ nShutdown = 0
    /\ nConfig = 0
    /\ layer = LayerNone
    /\ lcall = NoLayerCall
    /\ traceSettings = None
    /\ subscriber = None
    /\ exporter = None
    /\ file = <<>>
    /\ panicHook = None
    /\ threads = [t \in {1} |-> SinkThreadNew]
    /\ last = SinkCall("start", 0, None, None)

NextAgent ==
    \/ WithLogs
    \/ FileExporter
    \/ ExportPlain
    \/ ExportLoad
    \/ ExportCreateDest
    \/ ExportWrite
    \/ ShutdownStore
    \/ ShutdownReturn

SpecAgent == InitAgent /\ [][NextAgent]_vars

\* C28: the shutdown flag is monotonic: it is false when the exporter is
\* built, it is true from the first shutdown_with_timeout's store on, however
\* many calls follow, every shutdown_with_timeout returns Ok, and an export
\* call that began after a shutdown_with_timeout had returned gets as far as
\* reading the flag only: it returns AlreadyShutdown, having opened no
\* destination and written no record.
C28_ShutdownFlagMonotonic ==
    /\ exporter # None => (Unwrap(exporter).is_shutdown <=> Stored)
    /\ \A t \in DOMAIN threads :
         /\ (threads[t].op = "shutdown" /\ threads[t].pc = "idle") => threads[t].ret = "Ok"
         /\ (threads[t].op = "export" /\ threads[t].after) =>
               /\ threads[t].pc \in {"load", "idle"}
               /\ ~threads[t].opened
               /\ ~threads[t].wrote
               /\ threads[t].pc = "idle" => threads[t].ret = "AlreadyShutdown"

\* an export call made after the second shutdown_with_timeout returned has
\* returned AlreadyShutdown
C28_Witness ==
    /\ nShutdown = 2
    /\ \E t \in DOMAIN threads :
         /\ threads[t].op = "export"
         /\ threads[t].after
         /\ threads[t].pc = "idle"
         /\ threads[t].ret = "AlreadyShutdown"

\* C29: whatever the interleaving of export with shutdown_with_timeout, no
\* record is written once a shutdown_with_timeout call has returned.
C29_NoWriteAfterShutdown ==
    last.op = "write" => ~last.after

\* C29, as the code has it: a record is written after a shutdown_with_timeout
\* call has returned only by an export call that read the flag before any
\* shutdown_with_timeout stored it; a call that reads the flag after the
\* store writes nothing.
C29_NoWriteByLateCall ==
    last.op = "write" => ~threads[last.t].late

\* an export call that read the flag before the store writes a record after
\* shutdown_with_timeout has returned
C29_Witness ==
    /\ last.op = "write"
    /\ last.after
    /\ ~threads[last.t].late
    /\ Unwrap(exporter).is_shutdown

\* C22: every record's object is on a line of its own: in the destination two
\* objects never follow each other without a line break between them.
C22_OneObjectPerLine ==
    \A i \in 1..(Len(file) - 1) :
        file[i].kind = "object" => file[i + 1].kind = "newline"

\* the values written under a key of an object
Lookup(entries, key) == {entries[j][2] : j \in {n \in 1..Len(entries) : entries[n][1] = key}}

\* the key of an attribute in the object
FieldsKey(name) == Str("fields.", 1, 7) \o name

\* C23: whatever the length of its name, every attribute of a record whose
\* values the encoder supports is written under "fields." followed by the
\* whole name, and the scratch Buffer never holds more than its 1024 bytes.
C23_EveryAttributeUnderFullKey ==
    last.op = "write" =>
        LET record == Unwrap(last.record)
            out == Unwrap(last.out)
        IN  /\ out.len <= BufferCapacity
            /\ SupportedRecord(record) =>
                 \A i \in 1..Len(record.attributes) :
                     Lookup(out.entries, FieldsKey(record.attributes[i][1])) # {}

SinkObjectMatchesRecord ==
    (last.op = "write" /\ ~Unwrap(last.out).failed /\ ~Unwrap(last.out).panicked) =>
        LET record == Unwrap(last.record)
            entries == Unwrap(last.out).entries
            timestamp == IF record.timestamp # None THEN record.timestamp
                         ELSE record.observed_timestamp
        IN  /\ Lookup(entries, Str("message", 1, 7)) =
                  IF record.body = None THEN {} ELSE {Unwrap(AnyValueSerde(Unwrap(record.body)))}
            /\ Lookup(entries, Str("level", 1, 5)) =
                  {Json("string", text) : text \in record.severity_text}
            /\ Lookup(entries, Str("timestamp", 1, 9)) =
                  {Json("string", Rfc3339(t)) : t \in timestamp}
            /\ \A written \in Lookup(entries, Str("timestamp", 1, 9)) :
                  written.v.offset = "Z" /\ written.v.year \div 100 = 20
            /\ Lookup(entries, Str("dd.trace_id", 1, 11)) =
                  {Json("number", ctx.trace_id) : ctx \in record.trace_context}
            /\ Lookup(entries, Str("dd.span_id", 1, 10)) =
                  {Json("number", ctx.span_id) : ctx \in record.trace_context}
            /\ \A i \in 1..Len(record.attributes) :
                  Lookup(entries, FieldsKey(record.attributes[i][1])) =
                      {Unwrap(AnyValueSerde(record.attributes[i][2]))}

\* C21: a logs pipeline can be built for the agent protocol with a file
\* destination (with_logs returns the builder, the logs provider in place),
\* and a record emitted through it is in the file as the object with message,
\* level, timestamp, dd.trace_id / dd.span_id and fields.k as the record has
\* them.
C21_AgentLogsReachTheFile ==
    /\ (last.op = "with" /\ destination.protocol = "DatadogAgent") =>
          /\ last.ret = "Builder"
          /\ otlp.logs # None
    /\ SinkObjectMatchesRecord

====
